---- MODULE Spec2Model ----
(***************************************************************************)
(* A model of the morphlex morph engine (src/src/morphlex.ts).  The DOM is *)
(* a heap of nodes; one morph call is a stack machine whose steps are the  *)
(* engine's handlers.  Hook results are chosen nondeterministically at     *)
(* each hook call.                                                         *)
(***************************************************************************)
EXTENDS Naturals, Integers, Sequences, FiniteSets, TLC

VARIABLES
    dom,        \* the node heap: node id -> node record (both trees)
    dom0,       \* the heap when the call started (history)
    from,       \* the `from` argument of the call
    to,         \* the `to` argument of the call: a node, or the fragment holding a node list or a string's tokens
    entry,      \* the entry point called: "morphDocument" | "morph" | "morphInner"
    preserveChanges, \* options.preserveChanges
    vetoBudget, \* how many hook calls of this call may return false
    idMap,      \* Morph.#idMap: node id -> set of descendant ids
    stack,      \* the call stack of the Morph instance (top first)
    pc,         \* "init" | "run" | "done" | "error" (an exception left the call)
    log,        \* the trace of hook calls and committed mutations
    vetoes,     \* number of hook calls that returned false so far
    paired,     \* history: the (current, reference) pairs made by the child matcher
    descended   \* history: the (current, reference) parent pairs visitChildNodes ran on

vars == <<dom, dom0, from, to, entry, preserveChanges, vetoBudget, idMap, stack, pc, log, vetoes, paired, descended>>

----
\* Bounds of the model

\* most children of the current root
MaxFromKids == 2
\* most children of the reference root
MaxToKids == 3
\* most hook calls that return false in one call
MaxVetoes == 1
\* most hook calls returning false in a call whose hooks refuse wherever they can
MaxVetoesAll == 4
\* longest list of the permutation inputs
MaxPerm == 5

\* current children of the families that mix matched and new reference children
MaxLis == 4
\* longest reference sequence given to morph, and most tokens of a string
MaxSeq == 3

----
\* Program constants

ELEMENT_NODE_TYPE == 1
TEXT_NODE_TYPE == 3
COMMENT_NODE_TYPE == 8
DOCUMENT_NODE_TYPE == 9
DOCUMENT_FRAGMENT_NODE_TYPE == 11

\* null (no node)
Null == 0
\* getAttribute's null
NoAttr == "<null>"

\* node ids: the container, the two roots, the document, the node after
\* `from`, then children and grandchildren
Container == 1
FromRoot == 2
ToRoot == 3
Document == 4
Sibling == 5
ToDocument == 6
FromBase == 10
ToBase == 30
SubOffset == 50

----
\* The DOM primitives the engine consumes

Range(s) == {s[i] : i \in 1..Len(s)}

Max(S) == CHOOSE x \in S : \A y \in S : y <= x

Min(S) == CHOOSE x \in S : \A y \in S : x <= y

IndexOf(s, x) == IF \E i \in 1..Len(s) : s[i] = x THEN Min({i \in 1..Len(s) : s[i] = x}) ELSE 0

RemoveAt(s, i) == SubSeq(s, 1, i - 1) \o SubSeq(s, i + 1, Len(s))

InsertAt(s, i, x) == SubSeq(s, 1, i - 1) \o <<x>> \o SubSeq(s, i, Len(s))

MkNode(nodeType, lname, attrs, text, kids) ==
    [nodeType |-> nodeType, lname |-> lname, attrs |-> attrs, text |-> text, kids |-> kids,
     val |-> "", dval |-> FALSE, chk |-> FALSE, dchk |-> FALSE]

Attr(name, value) == [name |-> name, value |-> value]

ParentOf(d, n) ==
    IF \E p \in DOMAIN d : n \in Range(d[p].kids)
    THEN CHOOSE p \in DOMAIN d : n \in Range(d[p].kids)
    ELSE Null

NextSibling(d, n) ==
    LET p == ParentOf(d, n) IN
    IF p = Null THEN Null
    ELSE LET i == IndexOf(d[p].kids, n) IN
         IF i < Len(d[p].kids) THEN d[p].kids[i + 1] ELSE Null

FirstChild(d, p) == IF Len(d[p].kids) > 0 THEN d[p].kids[1] ELSE Null

\* node.remove()
Detach(d, n) ==
    LET p == ParentOf(d, n) IN
    IF p = Null THEN d
    ELSE [d EXCEPT ![p].kids = RemoveAt(@, IndexOf(@, n))]

\* parent.insertBefore(node, child) can throw: child is not a child of parent
InsertThrows(d, p, n, child) == child # Null /\ ParentOf(d, child) # p

\* parent.insertBefore(node, child) throws HierarchyRequestError: a document
\* takes no text node and no second element child
InsertRejected(d, p, n, child) ==
    \/ InsertThrows(d, p, n, child)
    \/ /\ d[p].nodeType = DOCUMENT_NODE_TYPE
       /\ \/ d[n].nodeType = TEXT_NODE_TYPE
          \/ /\ d[n].nodeType = ELEMENT_NODE_TYPE
             /\ \E k \in Range(d[p].kids) : k # n /\ d[k].nodeType = ELEMENT_NODE_TYPE

\* parent.insertBefore(node, child): node leaves its old parent first
InsertBefore(d, p, n, child) ==
    LET ref == IF child = n THEN NextSibling(d, n) ELSE child
        d1 == Detach(d, n)
        at == IF ref = Null THEN Len(d1[p].kids) + 1 ELSE IndexOf(d1[p].kids, ref)
    IN [d1 EXCEPT ![p].kids = InsertAt(@, at, n)]

HasAttr(nd, name) == \E i \in 1..Len(nd.attrs) : nd.attrs[i].name = name

GetAttr(nd, name) ==
    IF HasAttr(nd, name)
    THEN nd.attrs[CHOOSE i \in 1..Len(nd.attrs) : nd.attrs[i].name = name].value
    ELSE NoAttr

\* element.setAttribute(name, value): in place when present, appended otherwise
SetAttr(nd, name, value) ==
    IF HasAttr(nd, name)
    THEN [nd EXCEPT !.attrs = [i \in 1..Len(@) |-> IF @[i].name = name THEN Attr(name, value) ELSE @[i]]]
    ELSE [nd EXCEPT !.attrs = Append(@, Attr(name, value))]

SelectSeq2(s, name) == SelectSeq(s, LAMBDA a : a.name # name)

RemoveAttr(nd, name) == [nd EXCEPT !.attrs = SelectSeq2(@, name)]

AttrSet(nd) == {<<nd.attrs[i].name, nd.attrs[i].value>> : i \in 1..Len(nd.attrs)}

AttrNames(nd) == {nd.attrs[i].name : i \in 1..Len(nd.attrs)}

\* element.id
IdOf(nd) == IF HasAttr(nd, "id") THEN GetAttr(nd, "id") ELSE ""

IsElement(nd) == nd.nodeType = ELEMENT_NODE_TYPE

\* string.trim() === "" over the strings of the model
IsBlank(s) == s \in {"", " "}

RECURSIVE ConcatText(_, _)
\* the concatenated data of the text nodes below a node, in document order
ConcatText(d, ks) ==
    IF ks = <<>> THEN ""
    ELSE LET k == Head(ks)
             here == IF d[k].nodeType = TEXT_NODE_TYPE THEN d[k].text
                     ELSE IF IsElement(d[k]) THEN ConcatText(d, d[k].kids) ELSE ""
         IN here \o ConcatText(d, Tail(ks))

\* node.textContent
TextContent(d, n) == IF IsElement(d[n]) THEN ConcatText(d, d[n].kids) ELSE d[n].text

RECURSIVE Descendants(_, _)
\* the descendants of a node in document order, the node excluded
Descendants(d, n) ==
    LET ks == d[n].kids
        F[i \in 0..Len(ks)] == IF i = 0 THEN <<>> ELSE F[i - 1] \o <<ks[i]>> \o Descendants(d, ks[i])
    IN F[Len(ks)]

RECURSIVE IsEqualNode(_, _, _)
\* a.isEqualNode(b): same kind, name, data, attribute set, and equal children in order
IsEqualNode(d, a, b) ==
    /\ d[a].nodeType = d[b].nodeType
    /\ d[a].lname = d[b].lname
    /\ d[a].text = d[b].text
    /\ AttrSet(d[a]) = AttrSet(d[b])
    /\ Len(d[a].attrs) = Len(d[b].attrs)
    /\ Len(d[a].kids) = Len(d[b].kids)
    /\ \A i \in 1..Len(d[a].kids) : IsEqualNode(d, d[a].kids[i], d[b].kids[i])

\* input.defaultValue / textarea.defaultValue
DefaultValue(d, n) ==
    IF d[n].lname = "textarea" THEN TextContent(d, n)
    ELSE IF HasAttr(d[n], "value") THEN GetAttr(d[n], "value") ELSE ""

\* input.value / textarea.value: the user's value once the control is dirty
LiveValue(d, n) == IF d[n].dval THEN d[n].val ELSE DefaultValue(d, n)

\* input.defaultChecked
DefaultChecked(d, n) == HasAttr(d[n], "checked")

\* input.checked
LiveChecked(d, n) == IF d[n].dchk THEN d[n].chk ELSE DefaultChecked(d, n)

\* input.value = v
SetValue(d, n, v) == [d EXCEPT ![n].val = v, ![n].dval = TRUE]

\* input.checked = b
SetChecked(d, n, b) == [d EXCEPT ![n].chk = b, ![n].dchk = TRUE]

----
\* ID indexing and the dirty-flag pre-pass

\* the elements below `root` that carry a non-empty id and lie in the subtree of n
IdCarriers(d, root, n) ==
    {e \in Range(Descendants(d, root)) :
        /\ IsElement(d[e])
        /\ HasAttr(d[e], "id")
        /\ GetAttr(d[e], "id") # ""
        /\ (e = n \/ e \in Range(Descendants(d, n)))}

\* Morph.#mapIdSets(root): every id found below root is pushed on the id set of
\* its element and of each ancestor up to and including root
MapIdSets(d, idm, root) ==
    [n \in DOMAIN idm |->
        IF n = root \/ n \in Range(Descendants(d, root))
        THEN idm[n] \cup {GetAttr(d[e], "id") : e \in IdCarriers(d, root, n)}
        ELSE idm[n]]

\* PARENT_NODE_TYPES[node.nodeType]: element, document, fragment
IsParentNode(nd) == nd.nodeType \in {ELEMENT_NODE_TYPE, DOCUMENT_NODE_TYPE, DOCUMENT_FRAGMENT_NODE_TYPE}

RECURSIVE MapIdSetsForEach(_, _, _)
\* Morph.#mapIdSetsForEach(nodeList)
MapIdSetsForEach(d, idm, nodeList) ==
    IF nodeList = <<>> THEN idm
    ELSE MapIdSetsForEach(d, IF IsParentNode(d[Head(nodeList)]) THEN MapIdSets(d, idm, Head(nodeList)) ELSE idm,
                          Tail(nodeList))

RECURSIVE TrimStart(_, _)
\* string.trim() on the tokens of a string: the whitespace before the first token
TrimStart(d, tokens) ==
    IF tokens # <<>> /\ d[Head(tokens)].nodeType = TEXT_NODE_TYPE /\ IsBlank(d[Head(tokens)].text)
    THEN TrimStart(d, Tail(tokens)) ELSE tokens

RECURSIVE TrimEnd(_, _)
\* string.trim(): the whitespace after the last token
TrimEnd(d, tokens) ==
    IF tokens # <<>> /\ d[tokens[Len(tokens)]].nodeType = TEXT_NODE_TYPE /\ IsBlank(d[tokens[Len(tokens)]].text)
    THEN TrimEnd(d, SubSeq(tokens, 1, Len(tokens) - 1)) ELSE tokens

\* a `to` argument that is a string, held as the fragment of its tokens
IsString(d, n) == d[n].nodeType = DOCUMENT_FRAGMENT_NODE_TYPE /\ d[n].lname = "#string"

\* a `to` argument that is a NodeList (after parsing, when it was a string)
IsNodeList(d, n) == d[n].nodeType = DOCUMENT_FRAGMENT_NODE_TYPE

\* parseFragment(string): the template's content holds the nodes of string.trim()
ParseFragment(d, n) ==
    IF IsString(d, n) THEN [d EXCEPT ![n].kids = TrimEnd(d, TrimStart(d, @))] ELSE d

\* the test of flagDirtyInputs on one descendant
IsDirtyInput(d, n) ==
    \/ /\ d[n].lname = "input"
       /\ \/ (HasAttr(d[n], "name") /\ GetAttr(d[n], "name") # "" /\ LiveValue(d, n) # DefaultValue(d, n))
          \/ LiveChecked(d, n) # DefaultChecked(d, n)
    \/ /\ d[n].lname = "textarea"
       /\ LiveValue(d, n) # DefaultValue(d, n)

\* flagDirtyInputs(node): querySelectorAll visits the descendants, never node itself
FlagDirtyInputs(d, node) ==
    [n \in DOMAIN d |->
        IF n \in Range(Descendants(d, node)) /\ IsElement(d[n]) /\ IsDirtyInput(d, n)
        THEN SetAttr(d[n], "morphlex-dirty", "")
        ELSE d[n]]

----
\* Morph.#longestIncreasingSubsequence; 0 stands for undefined (and for -1 in prev)

RECURSIVE BinarySearch(_, _, _, _)
\* the while loop of the binary search, on 0-based left and right
\* a search that always answers the end of smallestEnding
BinarySearchAtEnd(smallestEnding, val, left, right) == right

BinarySearch(smallestEnding, val, left, right) ==
    IF left < right
    THEN LET mid == (left + right) \div 2 IN
         IF smallestEnding[mid + 1] < val
         THEN BinarySearch(smallestEnding, val, mid + 1, right)
         ELSE BinarySearch(smallestEnding, val, left, mid)
    ELSE left

RECURSIVE LisBuild(_, _, _)
\* the for loop that builds smallestEnding, indices and prev (the three arrays
\* `arrays` are bound as `st`, a value computed once for each turn of the loop)
LisBuild(sequence, i, arrays) ==
  CHOOSE result \in {
    IF i > Len(sequence) THEN st
    ELSE LET val == sequence[i] IN
         IF val = 0 THEN LisBuild(sequence, i + 1, st)
         ELSE LET left == BinarySearch(st.smallestEnding, val, 0, Len(st.smallestEnding))
                  p == IF left > 0 THEN st.indices[left] ELSE 0
                  st1 == IF left = Len(st.smallestEnding)
                         THEN [smallestEnding |-> Append(st.smallestEnding, val),
                               indices |-> Append(st.indices, i),
                               prev |-> [st.prev EXCEPT ![i] = p]]
                         ELSE [smallestEnding |-> [st.smallestEnding EXCEPT ![left + 1] = val],
                               indices |-> [st.indices EXCEPT ![left + 1] = i],
                               prev |-> [st.prev EXCEPT ![i] = p]]
              IN LisBuild(sequence, i + 1, st1)
    : st \in {arrays}} : TRUE

RECURSIVE LisWalkBack(_, _, _)
\* the while loop that follows the prev links
LisWalkBack(prev, curr, result) ==
    CHOOSE walked \in {IF c = 0 THEN r ELSE LisWalkBack(prev, prev[c], <<c>> \o r) :
                          c \in {curr}, r \in {result}} : TRUE

\* the positions of `sequence` that form the subsequence found
LongestIncreasingSubsequence(sequence) ==
    IF Len(sequence) = 0 THEN <<>>
    ELSE LET st == LisBuild(sequence, 1,
                     [smallestEnding |-> <<>>, indices |-> <<>>, prev |-> [i \in 1..Len(sequence) |-> 0]])
         IN IF Len(st.indices) = 0 THEN <<>>
            ELSE LisWalkBack(st.prev, st.indices[Len(st.indices)], <<>>)

----
\* The child matcher of Morph.visitChildNodes

\* input.type
InputType(nd) == IF HasAttr(nd, "type") THEN GetAttr(nd, "type") ELSE "text"

IsWhitespaceText(d, n) == d[n].nodeType = TEXT_NODE_TYPE /\ IsBlank(TextContent(d, n))

\* Match elements by isEqualNode
MatchByIsEqualNode(d, idm, c, r) == IsEqualNode(d, c, r)

\* Match by exact id or idSet: either test pairs the candidate
MatchByIdOrIdSet(d, idm, c, r) ==
    \/ /\ IdOf(d[r]) # ""
       /\ d[r].lname = d[c].lname
       /\ IdOf(d[r]) = IdOf(d[c])
    \/ /\ idm[r] # {}
       /\ idm[c] # {}
       /\ idm[r] \cap idm[c] # {}

SharesAttr(d, c, r, name) ==
    /\ HasAttr(d[r], name)
    /\ GetAttr(d[r], name) # ""
    /\ GetAttr(d[r], name) = GetAttr(d[c], name)

\* Match by heuristics: same local name and a shared name, href or src
MatchByHeuristics(d, idm, c, r) ==
    /\ d[r].lname = d[c].lname
    /\ (SharesAttr(d, c, r, "name") \/ SharesAttr(d, c, r, "href") \/ SharesAttr(d, c, r, "src"))

\* Match by tagName; inputs of different type are different tags
MatchByTagName(d, idm, c, r) ==
    /\ d[r].lname = d[c].lname
    /\ ~(d[c].lname = "input" /\ d[r].lname = "input" /\ InputType(d[c]) # InputType(d[r]))

\* Match nodes by isEqualNode
MatchNodesByIsEqualNode(d, idm, c, r) == IsEqualNode(d, c, r)

\* Match by nodeType
\* a last loop that pairs any two non-element nodes
MatchByAnyNode(d, idm, c, r) == TRUE

MatchByNodeType(d, idm, c, r) == d[r].nodeType = d[c].nodeType

\* the test of the k-th matching loop
MatchPred(k, d, idm, c, r) ==
    CASE k = 1 -> MatchByIsEqualNode(d, idm, c, r)
      [] k = 2 -> MatchByIdOrIdSet(d, idm, c, r)
      [] k = 3 -> MatchByHeuristics(d, idm, c, r)
      [] k = 4 -> MatchByTagName(d, idm, c, r)
      [] k = 5 -> MatchNodesByIsEqualNode(d, idm, c, r)
      [] k = 6 -> MatchByNodeType(d, idm, c, r)

\* the two classification loops: the index sets before any matching
Classify(d, fromChildNodes, toChildNodes) ==
    [matches |-> [j \in 1..Len(toChildNodes) |-> 0],
     candidateElements |-> {i \in 1..Len(fromChildNodes) : IsElement(d[fromChildNodes[i]])},
     whitespaceNodes |-> {i \in 1..Len(fromChildNodes) : IsWhitespaceText(d, fromChildNodes[i])},
     candidateNodes |-> {i \in 1..Len(fromChildNodes) :
                            ~IsElement(d[fromChildNodes[i]]) /\ ~IsWhitespaceText(d, fromChildNodes[i])},
     unmatchedElements |-> {j \in 1..Len(toChildNodes) : IsElement(d[toChildNodes[j]])},
     unmatchedNodes |-> {j \in 1..Len(toChildNodes) :
                            ~IsElement(d[toChildNodes[j]]) /\ ~IsWhitespaceText(d, toChildNodes[j])}]

RECURSIVE RunPass(_, _, _, _, _, _, _)
\* one matching loop: each unmatched reference index, in order, takes the first
\* candidate, in order, that passes the loop's test (the index sets `sets` are
\* bound as `st`, a value computed once for each turn of the loop)
RunPass(k, j, d, idm, fromChildNodes, toChildNodes, sets) ==
  CHOOSE result \in {
    IF j > Len(toChildNodes) THEN st
    ELSE LET pool == IF k <= 4 THEN st.candidateElements ELSE st.candidateNodes
             unmatched == IF k <= 4 THEN st.unmatchedElements ELSE st.unmatchedNodes
             hits == {c \in pool : MatchPred(k, d, idm, fromChildNodes[c], toChildNodes[j])}
         IN IF j \notin unmatched \/ hits = {}
            THEN RunPass(k, j + 1, d, idm, fromChildNodes, toChildNodes, st)
            ELSE LET c == Min(hits)
                     st1 == IF k <= 4
                            THEN [st EXCEPT !.matches[j] = c,
                                            !.candidateElements = @ \ {c},
                                            !.unmatchedElements = @ \ {j}]
                            ELSE [st EXCEPT !.matches[j] = c,
                                            !.candidateNodes = @ \ {c},
                                            !.unmatchedNodes = @ \ {j}]
                 IN RunPass(k, j + 1, d, idm, fromChildNodes, toChildNodes, st1)
    : st \in {sets}} : TRUE

RECURSIVE RunPasses(_, _, _, _, _, _)
\* the six matching loops in their order
RunPasses(k, d, idm, fromChildNodes, toChildNodes, st) ==
    IF k > 6 THEN st
    ELSE RunPasses(k + 1, d, idm, fromChildNodes, toChildNodes,
                   RunPass(k, 1, d, idm, fromChildNodes, toChildNodes, st))

MatchChildren(d, idm, fromChildNodes, toChildNodes) ==
    RunPasses(1, d, idm, fromChildNodes, toChildNodes, Classify(d, fromChildNodes, toChildNodes))

RECURSIVE SetToSeq(_)
\* a Set<number> filled in ascending order iterates in ascending order
SetToSeq(S) == IF S = {} THEN <<>> ELSE <<Min(S)>> \o SetToSeq(S \ {Min(S)})

\* the nodes the three removal loops visit, in their order
RemovalOrder(fromChildNodes, st) ==
    LET ix == SetToSeq(st.candidateNodes) \o SetToSeq(st.whitespaceNodes) \o SetToSeq(st.candidateElements)
    IN [i \in 1..Len(ix) |-> fromChildNodes[ix[i]]]

\* a reorder walk that keeps no matched node in place
ShouldNotMoveNothing(matches) == {}

\* shouldNotMove: the candidate indices whose match lies on the subsequence
ShouldNotMove(matches) ==
    LET lisIndices == LongestIncreasingSubsequence(matches)
    IN {matches[lisIndices[i]] : i \in 1..Len(lisIndices)}

----
\* The trace: hook calls with their result, and the mutations committed

Ev(ev, node, name, ok) == [ev |-> ev, node |-> node, name |-> name, ok |-> ok]

\* the attribute names for which #visitAttributes consults beforeAttributeUpdated
HookedNames(d, f, t) ==
    {n \in AttrNames(d[t]) : n = "morphlex-dirty" \/ GetAttr(d[f], n) # GetAttr(d[t], n)}
        \cup ((AttrNames(d[f]) \ {"morphlex-dirty"}) \ AttrNames(d[t]))

\* a forward pass that writes the live properties whatever preserveChanges says
ForwardLiveOverwriting(d, f, name, value, preserve) ==
    LET d1 == IF name = "value" /\ d[f].lname = "input" /\ LiveValue(d, f) # value
              THEN SetValue(d, f, value) ELSE d
    IN IF name = "checked" /\ d1[f].lname = "input" /\ ~LiveChecked(d1, f)
       THEN SetChecked(d1, f, TRUE) ELSE d1

\* the live-property writes of the forward pass for one reference attribute
\* a forward pass that writes no live property
ForwardLiveNever(d, f, name, value, preserve) == d

ForwardLive(d, f, name, value, preserve) ==
    LET d1 == IF /\ name = "value"
                 /\ d[f].lname = "input"
                 /\ LiveValue(d, f) # value
                 /\ (~preserve \/ LiveValue(d, f) = DefaultValue(d, f))
              THEN SetValue(d, f, value) ELSE d
    IN IF /\ name = "checked"
          /\ d1[f].lname = "input"
          /\ ~LiveChecked(d1, f)
          /\ (~preserve \/ LiveChecked(d1, f) = DefaultChecked(d1, f))
       THEN SetChecked(d1, f, TRUE) ELSE d1

\* the live-property writes of the backward pass for one excess attribute
BackwardLive(d, f, name, preserve) ==
    IF /\ name = "checked"
       /\ d[f].lname = "input"
       /\ LiveChecked(d, f)
       /\ (~preserve \/ LiveChecked(d, f) = DefaultChecked(d, f))
    THEN SetChecked(d, f, FALSE) ELSE d

RECURSIVE ForwardPass(_, _, _, _, _, _)
\* First pass: update/add attributes from reference (iterate forwards); V is the
\* set of names for which beforeAttributeUpdated returns false
ForwardPass(st, f, t, i, preserve, V) ==
    IF i > Len(st.d[t].attrs) THEN st
    ELSE LET name == st.d[t].attrs[i].name
             value == st.d[t].attrs[i].value
             d1 == ForwardLive(st.d, f, name, value, preserve)
             oldValue == GetAttr(d1[f], name)
             st1 == IF oldValue = value THEN [st EXCEPT !.d = d1]
                    ELSE IF name \in V
                    THEN [d |-> d1,
                          log |-> Append(st.log, Ev("beforeAttributeUpdated", f, name, FALSE)),
                          vetoed |-> st.vetoed + 1]
                    ELSE [d |-> [d1 EXCEPT ![f] = SetAttr(@, name, value)],
                          log |-> st.log \o <<Ev("beforeAttributeUpdated", f, name, TRUE),
                                              Ev("setAttribute", f, name, TRUE),
                                              Ev("afterAttributeUpdated", f, name, TRUE)>>,
                          vetoed |-> st.vetoed]
         IN ForwardPass(st1, f, t, i + 1, preserve, V)

\* an attribute morpher without its second pass
BackwardPassSkipped(st, f, t, i, preserve, V) == st

RECURSIVE BackwardPass(_, _, _, _, _, _)
\* Second pass: remove excess attributes (iterate backwards)
BackwardPass(st, f, t, i, preserve, V) ==
    IF i < 1 THEN st
    ELSE LET name == st.d[f].attrs[i].name
             d1 == BackwardLive(st.d, f, name, preserve)
             st1 == IF HasAttr(st.d[t], name) THEN st
                    ELSE IF name \in V
                    THEN [d |-> d1,
                          log |-> Append(st.log, Ev("beforeAttributeUpdated", f, name, FALSE)),
                          vetoed |-> st.vetoed + 1]
                    ELSE [d |-> [d1 EXCEPT ![f] = RemoveAttr(@, name)],
                          log |-> st.log \o <<Ev("beforeAttributeUpdated", f, name, TRUE),
                                              Ev("removeAttribute", f, name, TRUE),
                                              Ev("afterAttributeUpdated", f, name, TRUE)>>,
                          vetoed |-> st.vetoed]
         IN BackwardPass(st1, f, t, i - 1, preserve, V)

\* Morph.#visitAttributes(from, to)
VisitAttributesOf(d, f, t, preserve, V) ==
    LET st0 == IF HasAttr(d[f], "morphlex-dirty")
               THEN [d |-> [d EXCEPT ![f] = RemoveAttr(@, "morphlex-dirty")],
                     log |-> <<Ev("removeAttribute", f, "morphlex-dirty", TRUE)>>, vetoed |-> 0]
               ELSE [d |-> d, log |-> <<>>, vetoed |-> 0]
        st1 == ForwardPass(st0, f, t, 1, preserve, V)
    IN BackwardPass(st1, f, t, Len(st1.d[f].attrs), preserve, V)

\* a replacement that asks one hook at a time and removes the old node as soon
\* as its removal is approved
ReplaceNodeStepwise(d, node, newNode, okRemoved, okAdded) ==
    LET parent == ParentOf(d, node)
    IN IF ~okRemoved THEN [d |-> d, log |-> <<Ev("beforeNodeRemoved", node, "", FALSE)>>]
       ELSE IF ~okAdded
       THEN [d |-> Detach(d, node),
             log |-> <<Ev("beforeNodeRemoved", node, "", TRUE), Ev("remove", node, "", TRUE),
                       Ev("afterNodeRemoved", node, "", TRUE), Ev("beforeNodeAdded", newNode, "", FALSE)>>]
       ELSE [d |-> Detach(InsertBefore(d, parent, newNode, node), node),
             log |-> <<Ev("beforeNodeRemoved", node, "", TRUE), Ev("beforeNodeAdded", newNode, "", TRUE),
                       Ev("insert", newNode, "", TRUE), Ev("afterNodeAdded", newNode, "", TRUE),
                       Ev("remove", node, "", TRUE), Ev("afterNodeRemoved", node, "", TRUE)>>]

\* Morph.#replaceNode(node, newNode) with the results of its two hooks; the
\* second hook is consulted only when the first approves
\* a replacement that takes the old node out before the new one goes in
ReplaceNodeRemovingFirst(d, node, newNode, okRemoved, okAdded) ==
    LET parent == ParentOf(d, node)
        before == IF okRemoved
                  THEN <<Ev("beforeNodeRemoved", node, "", TRUE), Ev("beforeNodeAdded", newNode, "", okAdded)>>
                  ELSE <<Ev("beforeNodeRemoved", node, "", FALSE)>>
    IN IF okRemoved /\ okAdded
       THEN [d |-> Detach(InsertBefore(d, parent, newNode, node), node),
             log |-> before \o <<Ev("remove", node, "", TRUE), Ev("afterNodeRemoved", node, "", TRUE),
                                 Ev("insert", newNode, "", TRUE), Ev("afterNodeAdded", newNode, "", TRUE)>>]
       ELSE [d |-> d, log |-> before]

ReplaceNode(d, node, newNode, okRemoved, okAdded) ==
    LET parent == ParentOf(d, node)
        before == IF okRemoved
                  THEN <<Ev("beforeNodeRemoved", node, "", TRUE), Ev("beforeNodeAdded", newNode, "", okAdded)>>
                  ELSE <<Ev("beforeNodeRemoved", node, "", FALSE)>>
    IN IF okRemoved /\ okAdded
       THEN [d |-> Detach(InsertBefore(d, parent, newNode, node), node),
             log |-> before \o <<Ev("insert", newNode, "", TRUE), Ev("afterNodeAdded", newNode, "", TRUE),
                                 Ev("remove", node, "", TRUE), Ev("afterNodeRemoved", node, "", TRUE)>>]
       ELSE [d |-> d, log |-> before]

\* a removal that consults its hook and removes the node whatever it says
RemoveNodeUngated(d, node, ok) ==
    [d |-> Detach(d, node),
     log |-> <<Ev("beforeNodeRemoved", node, "", ok), Ev("remove", node, "", TRUE),
               Ev("afterNodeRemoved", node, "", TRUE)>>]

\* a removal that reports afterNodeRemoved even when the removal was refused
RemoveNodeAlwaysReported(d, node, ok) ==
    IF ok
    THEN [d |-> Detach(d, node),
          log |-> <<Ev("beforeNodeRemoved", node, "", TRUE), Ev("remove", node, "", TRUE),
                    Ev("afterNodeRemoved", node, "", TRUE)>>]
    ELSE [d |-> d, log |-> <<Ev("beforeNodeRemoved", node, "", FALSE), Ev("afterNodeRemoved", node, "", TRUE)>>]

\* Morph.#removeNode(node) with the result of its hook
RemoveNodeOf(d, node, ok) ==
    IF ok
    THEN [d |-> Detach(d, node),
          log |-> <<Ev("beforeNodeRemoved", node, "", TRUE), Ev("remove", node, "", TRUE),
                    Ev("afterNodeRemoved", node, "", TRUE)>>]
    ELSE [d |-> d, log |-> <<Ev("beforeNodeRemoved", node, "", FALSE)>>]

\* moveBefore(parent, node, insertionPoint) performs a DOM operation
MoveNeeded(d, parent, node, insertionPoint) ==
    /\ node # insertionPoint
    /\ ~(ParentOf(d, node) = parent /\ NextSibling(d, node) = insertionPoint)

\* moveBefore(parent, node, insertionPoint)
MoveBefore(d, parent, node, insertionPoint) ==
    IF MoveNeeded(d, parent, node, insertionPoint)
    THEN InsertBefore(d, parent, node, insertionPoint)
    ELSE d

\* the new text child a textContent assignment creates
FreshNode(d) == Max(DOMAIN d) + 1

\* element.textContent = s: every child goes, one new text node comes unless s is empty
SetTextContent(d, n, s) ==
    LET cleared == [d EXCEPT ![n].kids = <<>>]
    IN IF s = "" THEN cleared
       ELSE [k \in DOMAIN d \cup {FreshNode(d)} |->
                IF k = FreshNode(d) THEN MkNode(TEXT_NODE_TYPE, "", <<>>, s, <<>>)
                ELSE IF k = n THEN [d[n] EXCEPT !.kids = <<FreshNode(d)>>]
                ELSE d[k]]

\* the trace of a textContent assignment: the children removed, the text node added
SetTextContentLog(d, n, s) ==
    [i \in 1..Len(d[n].kids) |-> Ev("remove", d[n].kids[i], "", TRUE)]
        \o (IF s = "" THEN <<>> ELSE <<Ev("insert", FreshNode(d), "", TRUE)>>)

\* Morph.#visitTextArea(from, to)
VisitTextAreaOf(d, f, t, preserve) ==
    LET newTextContent == TextContent(d, t)
        isModified == LiveValue(d, f) # DefaultValue(d, f)
        changed == TextContent(d, f) # newTextContent
        d1 == IF changed THEN SetTextContent(d, f, newTextContent) ELSE d
        lg == IF changed THEN SetTextContentLog(d, f, newTextContent) ELSE <<>>
    IN IF preserve /\ isModified THEN [d |-> d1, log |-> lg]
       ELSE [d |-> SetValue(d1, f, DefaultValue(d1, f)), log |-> lg]

----
\* The call stack: a frame per #morphOneToOne call and per visitChildNodes call

PairFrame(f, t) ==
    [op |-> "pair", from |-> f, to |-> t, phase |-> "start", visited |-> FALSE, inner |-> FALSE,
     fromChildNodes |-> <<>>, toChildNodes |-> <<>>, matches |-> <<>>, removals |-> <<>>,
     i |-> 0, insertionPoint |-> Null, shouldNotMove |-> {}]

ChildrenFrame(d, idm, f, t) ==
    LET st == MatchChildren(d, idm, d[f].kids, d[t].kids)
    IN [op |-> "children", from |-> f, to |-> t, phase |-> "remove", visited |-> TRUE, inner |-> FALSE,
        fromChildNodes |-> d[f].kids, toChildNodes |-> d[t].kids, matches |-> st.matches,
        removals |-> RemovalOrder(d[f].kids, st),
        i |-> 0, insertionPoint |-> Null, shouldNotMove |-> {}]

\* an inner morph that treats the outer pair like any other pair
OuterFrame(f, t) == PairFrame(f, t)

\* morphInner's own activation: it calls visitChildNodes on the pair at once
InnerFrame(f, t) == [PairFrame(f, t) EXCEPT !.phase = "children", !.inner = TRUE]

\* #morphOneToMany with two nodes or more: the nodes still to insert
ManyFrame(f, newNodes) == [PairFrame(f, f) EXCEPT !.op = "many", !.phase = "walk", !.toChildNodes = newNodes]

Top == Head(stack)

AtPair(phase) == pc = "run" /\ stack # <<>> /\ Top.op = "pair" /\ Top.phase = phase

AtChildren(phase) == pc = "run" /\ stack # <<>> /\ Top.op = "children" /\ Top.phase = phase

AtMany == pc = "run" /\ stack # <<>> /\ Top.op = "many"

\* #morphMatchingElements reaches visitChildNodes for a pair that is no textarea
\* pair and has child nodes; morphInner calls it whatever the pair is
CallsVisitChildNodes ==
    \/ Top.inner
    \/ dom[Top.from].lname # "textarea" /\ (dom[Top.from].kids # <<>> \/ dom[Top.to].kids # <<>>)

CanVeto == vetoes < vetoBudget

\* the two fast paths of #morphOneToOne
IsFastPath(d, f, t) == f = t \/ IsEqualNode(d, f, t)

BothElements(d, f, t) == IsElement(d[f]) /\ IsElement(d[t])

\* the trace of flagDirtyInputs: the descendants flagged, in document order
FlagDirtyLog(d, node) ==
    LET ds == SelectSeq(Descendants(d, node), LAMBDA n : IsElement(d[n]) /\ IsDirtyInput(d, n))
    IN [i \in 1..Len(ds) |-> Ev("flagDirty", ds[i], "morphlex-dirty", TRUE)]

----
\* The steps of one call

\* document.documentElement: the element child of a document
DocumentElement(d, doc) == CHOOSE k \in Range(d[doc].kids) : IsElement(d[k])

\* morphDocument(from, to, options): morph is called on the two document elements
MorphDocument ==
    /\ pc = "init"
    /\ entry = "morphDocument"
    /\ from' = DocumentElement(dom, from)
    /\ to' = DocumentElement(dom, to)
    /\ entry' = "morph"
    /\ UNCHANGED <<dom, dom0, preserveChanges, vetoBudget, idMap, stack, pc, log, vetoes, paired, descended>>

\* morph(from, to, options), Morph.morph(from, to) and #morphOneToMany, up to
\* the first #morphOneToOne; with an empty node list, the whole call
Morph ==
    /\ pc = "init"
    /\ entry = "morph"
    /\ \E parsed \in {ParseFragment(dom, to)} :
       \E d1 \in {IF ~preserveChanges /\ IsParentNode(parsed[from]) THEN FlagDirtyInputs(parsed, from) ELSE parsed} :
       \E m1 \in {IF IsParentNode(d1[from]) THEN MapIdSets(d1, idMap, from) ELSE idMap} :
       LET flag == ~preserveChanges /\ IsParentNode(parsed[from])
           lg == log \o (IF flag THEN FlagDirtyLog(parsed, from) ELSE <<>>)
           nodes == d1[to].kids
       IN IF IsNodeList(d1, to)
          THEN /\ idMap' = MapIdSetsForEach(d1, m1, nodes)
               /\ IF nodes = <<>>
                  THEN \E ok \in BOOLEAN :
                         /\ (~ok => CanVeto)
                         /\ LET r == RemoveNodeOf(d1, from, ok)
                            IN /\ dom' = r.d
                               /\ log' = lg \o r.log
                         /\ vetoes' = vetoes + (IF ok THEN 0 ELSE 1)
                         /\ stack' = <<>>
                         /\ pc' = "done"
                  ELSE /\ dom' = d1
                       /\ log' = lg
                       /\ vetoes' = vetoes
                       /\ stack' = IF Len(nodes) = 1 THEN <<PairFrame(from, nodes[1])>>
                                   ELSE <<PairFrame(from, nodes[1]), ManyFrame(from, Tail(nodes))>>
                       /\ pc' = "run"
          ELSE /\ dom' = d1
               /\ log' = lg
               /\ vetoes' = vetoes
               /\ IF IsParentNode(d1[to])
                  THEN /\ idMap' = MapIdSets(d1, m1, to)
                       /\ stack' = <<PairFrame(from, to)>>
                       /\ pc' = "run"
                  ELSE /\ idMap' = m1
                       /\ stack' = <<>>
                       /\ pc' = "done"
    /\ UNCHANGED <<dom0, from, to, entry, preserveChanges, vetoBudget, paired, descended>>

\* a test that accepts any fragment starting with an element
StartsWithElement(d, fragment) ==
    fragment # <<>> /\ d[fragment[1]].nodeType = ELEMENT_NODE_TYPE

\* morphInner: fragment.firstChild && fragment.childNodes.length === 1 && firstChild is an element
IsSingleElement(d, fragment) ==
    fragment # <<>> /\ Len(fragment) = 1 /\ d[fragment[1]].nodeType = ELEMENT_NODE_TYPE

\* morphInner(from, to, options) up to its call of visitChildNodes, or to its error
MorphInner ==
    /\ pc = "init"
    /\ entry = "morphInner"
    /\ LET parsed == ParseFragment(dom, to)
           fragment == parsed[to].kids
           validString == IsSingleElement(parsed, fragment)
           t == IF IsString(dom, to) /\ validString THEN fragment[1] ELSE to
           matching == /\ parsed[from].nodeType = ELEMENT_NODE_TYPE
                       /\ parsed[t].nodeType = ELEMENT_NODE_TYPE
                       /\ parsed[from].lname = parsed[t].lname
       IN IF (IsString(dom, to) /\ ~validString) \/ ~matching
          THEN /\ dom' = parsed
               /\ pc' = "error"
               /\ UNCHANGED <<to, log, stack>>
          ELSE /\ dom' = FlagDirtyInputs(parsed, from)
               /\ log' = log \o FlagDirtyLog(parsed, from)
               /\ to' = t
               /\ stack' = <<InnerFrame(from, t)>>
               /\ pc' = "run"
    /\ UNCHANGED <<dom0, from, entry, preserveChanges, vetoBudget, idMap, vetoes, paired, descended>>

\* #morphOneToOne: from === to, or from.isEqualNode(to)
FastPath ==
    /\ AtPair("start")
    /\ IsFastPath(dom, Top.from, Top.to)
    /\ stack' = [stack EXCEPT ![1].phase = "done"]
    /\ UNCHANGED <<dom, dom0, from, to, entry, preserveChanges, vetoBudget, idMap, pc, log, vetoes, paired, descended>>

\* #morphOneToOne: beforeNodeVisited returns false
BeforeNodeVisitedFalse ==
    /\ AtPair("start")
    /\ ~IsFastPath(dom, Top.from, Top.to)
    /\ CanVeto
    /\ vetoes' = vetoes + 1
    /\ log' = Append(log, Ev("beforeNodeVisited", Top.from, "", FALSE))
    /\ stack' = [stack EXCEPT ![1].phase = "done"]
    /\ UNCHANGED <<dom, dom0, from, to, entry, preserveChanges, vetoBudget, idMap, pc, paired, descended>>

\* #morphMatchingElements, first half: #visitAttributes when either has attributes
MorphMatchingElements ==
    /\ AtPair("start")
    /\ ~IsFastPath(dom, Top.from, Top.to)
    /\ BothElements(dom, Top.from, Top.to)
    /\ dom[Top.from].lname = dom[Top.to].lname
    /\ \E V \in SUBSET HookedNames(dom, Top.from, Top.to) :
         /\ Cardinality(V) <= vetoBudget - vetoes
         /\ LET has == dom[Top.from].attrs # <<>> \/ dom[Top.to].attrs # <<>>
                r == IF has THEN VisitAttributesOf(dom, Top.from, Top.to, preserveChanges, V)
                     ELSE [d |-> dom, log |-> <<>>, vetoed |-> 0]
            IN /\ (~has => V = {})
               /\ dom' = r.d
               /\ log' = log \o <<Ev("beforeNodeVisited", Top.from, "", TRUE)>> \o r.log
               /\ vetoes' = vetoes + r.vetoed
    /\ stack' = [stack EXCEPT ![1].phase = "children", ![1].visited = TRUE]
    /\ UNCHANGED <<dom0, from, to, entry, preserveChanges, vetoBudget, idMap, pc, paired, descended>>

\* #morphMatchingElements: a textarea pair goes to #visitTextArea
VisitTextArea ==
    /\ AtPair("children")
    /\ ~Top.inner
    /\ dom[Top.from].lname = "textarea"
    /\ LET r == VisitTextAreaOf(dom, Top.from, Top.to, preserveChanges)
       IN /\ dom' = r.d
          /\ log' = log \o r.log
          /\ idMap' = [n \in DOMAIN r.d |-> IF n \in DOMAIN idMap THEN idMap[n] ELSE {}]
    /\ stack' = [stack EXCEPT ![1].phase = "done"]
    /\ UNCHANGED <<dom0, from, to, entry, preserveChanges, vetoBudget, pc, vetoes, paired, descended>>

HasChildNodes(d, f, t) == d[f].kids # <<>> \/ d[t].kids # <<>>

\* #morphMatchingElements: neither element has child nodes
NoChildNodes ==
    /\ AtPair("children")
    /\ ~Top.inner
    /\ dom[Top.from].lname # "textarea"
    /\ ~HasChildNodes(dom, Top.from, Top.to)
    /\ stack' = [stack EXCEPT ![1].phase = "done"]
    /\ UNCHANGED <<dom, dom0, from, to, entry, preserveChanges, vetoBudget, idMap, pc, log, vetoes, paired, descended>>

\* visitChildNodes: beforeChildrenVisited returns false
BeforeChildrenVisitedFalse ==
    /\ AtPair("children")
    /\ CallsVisitChildNodes
    /\ CanVeto
    /\ vetoes' = vetoes + 1
    /\ log' = Append(log, Ev("beforeChildrenVisited", Top.from, "", FALSE))
    /\ stack' = [stack EXCEPT ![1].phase = "done"]
    /\ UNCHANGED <<dom, dom0, from, to, entry, preserveChanges, vetoBudget, idMap, pc, paired, descended>>

\* visitChildNodes up to the end of the matching loops
VisitChildNodes ==
    /\ AtPair("children")
    /\ CallsVisitChildNodes
    /\ \E fr \in {ChildrenFrame(dom, idMap, Top.from, Top.to)} :
          /\ stack' = <<fr>> \o [stack EXCEPT ![1].phase = "done"]
          /\ paired' = paired \cup
                {[cur |-> fr.fromChildNodes[fr.matches[j]], ref |-> fr.toChildNodes[j],
                  parent |-> fr.from, at |-> j] : j \in {k \in 1..Len(fr.matches) : fr.matches[k] # 0}}
          /\ descended' = descended \cup {<<fr.from, fr.to>>}
    /\ log' = Append(log, Ev("beforeChildrenVisited", Top.from, "", TRUE))
    /\ UNCHANGED <<dom, dom0, from, to, entry, preserveChanges, vetoBudget, idMap, pc, vetoes>>

\* the hook results #replaceNode can meet within the veto budget
ReplaceChoices ==
    {<<TRUE, TRUE>>} \cup (IF CanVeto THEN {<<FALSE, TRUE>>, <<TRUE, FALSE>>} ELSE {})

\* #morphNonMatchingElements: elements of different local name are replaced
MorphNonMatchingElements ==
    /\ AtPair("start")
    /\ ~IsFastPath(dom, Top.from, Top.to)
    /\ BothElements(dom, Top.from, Top.to)
    /\ dom[Top.from].lname # dom[Top.to].lname
    /\ \E ch \in ReplaceChoices :
         LET r == ReplaceNode(dom, Top.from, Top.to, ch[1], ch[2])
         IN /\ dom' = r.d
            /\ log' = log \o <<Ev("beforeNodeVisited", Top.from, "", TRUE)>> \o r.log
            /\ vetoes' = vetoes + (IF ch[1] /\ ch[2] THEN 0 ELSE 1)
    /\ stack' = [stack EXCEPT ![1].phase = "done", ![1].visited = TRUE]
    /\ UNCHANGED <<dom0, from, to, entry, preserveChanges, vetoBudget, idMap, pc, paired, descended>>

\* #morphOtherNode: same kind of non-element gets the reference's data
SameKindData(d, f, t) ==
    /\ d[f].nodeType = d[t].nodeType
    /\ ~IsElement(d[f])
    /\ ~IsElement(d[t])

\* #morphOtherNode
MorphOtherNode ==
    /\ AtPair("start")
    /\ ~IsFastPath(dom, Top.from, Top.to)
    /\ ~BothElements(dom, Top.from, Top.to)
    /\ IF SameKindData(dom, Top.from, Top.to)
       THEN /\ dom' = [dom EXCEPT ![Top.from].text = dom[Top.to].text]
            /\ log' = log \o <<Ev("beforeNodeVisited", Top.from, "", TRUE), Ev("setData", Top.from, "", TRUE)>>
            /\ vetoes' = vetoes
       ELSE \E ch \in ReplaceChoices :
              LET r == ReplaceNode(dom, Top.from, Top.to, ch[1], ch[2])
              IN /\ dom' = r.d
                 /\ log' = log \o <<Ev("beforeNodeVisited", Top.from, "", TRUE)>> \o r.log
                 /\ vetoes' = vetoes + (IF ch[1] /\ ch[2] THEN 0 ELSE 1)
    /\ stack' = [stack EXCEPT ![1].phase = "done", ![1].visited = TRUE]
    /\ UNCHANGED <<dom0, from, to, entry, preserveChanges, vetoBudget, idMap, pc, paired, descended>>

\* an end of #morphOneToOne after which the reorder walk goes on to the next
\* reference child only when the pair was visited
AfterNodeVisitedStalling ==
    /\ AtPair("done")
    /\ log' = IF Top.visited THEN Append(log, Ev("afterNodeVisited", Top.from, "", TRUE)) ELSE log
    /\ IF Len(stack) = 1
       THEN /\ stack' = <<>>
            /\ pc' = "done"
       ELSE /\ stack' = [Tail(stack) EXCEPT ![1].insertionPoint = NextSibling(dom, Top.from),
                                            ![1].i = IF Top.visited \/ stack[2].op # "children"
                                                     THEN @ + 1 ELSE @]
            /\ pc' = pc
    /\ UNCHANGED <<dom, dom0, from, to, entry, preserveChanges, vetoBudget, idMap, vetoes, paired, descended>>

\* the end of #morphOneToOne: afterNodeVisited, then the caller goes on; in the
\* reorder walk the caller reads match.nextSibling only now
AfterNodeVisited ==
    /\ AtPair("done")
    /\ log' = IF Top.visited THEN Append(log, Ev("afterNodeVisited", Top.from, "", TRUE)) ELSE log
    /\ IF Len(stack) = 1
       THEN /\ stack' = <<>>
            /\ pc' = "done"
       ELSE /\ stack' = [Tail(stack) EXCEPT ![1].insertionPoint = NextSibling(dom, Top.from),
                                            ![1].i = @ + 1]
            /\ pc' = pc
    /\ UNCHANGED <<dom, dom0, from, to, entry, preserveChanges, vetoBudget, idMap, vetoes, paired, descended>>

\* visitChildNodes: one #removeNode call of the three removal loops
RemoveNode ==
    /\ AtChildren("remove")
    /\ Top.removals # <<>>
    /\ \E ok \in BOOLEAN :
         /\ (~ok => CanVeto)
         /\ LET r == RemoveNodeOf(dom, Head(Top.removals), ok)
            IN /\ dom' = r.d
               /\ log' = log \o r.log
         /\ vetoes' = vetoes + (IF ok THEN 0 ELSE 1)
    /\ stack' = [stack EXCEPT ![1].removals = Tail(@)]
    /\ UNCHANGED <<dom0, from, to, entry, preserveChanges, vetoBudget, idMap, pc, paired, descended>>

\* visitChildNodes: the subsequence is found once the removals are over, and
\* the walk starts at parent.firstChild
\* a walk that may start while unmatched children still wait for their removal
FindLISEarly ==
    /\ AtChildren("remove")
    /\ stack' = [stack EXCEPT ![1].phase = "walk",
                              ![1].shouldNotMove = ShouldNotMove(Top.matches),
                              ![1].insertionPoint = FirstChild(dom, Top.from),
                              ![1].i = 1]
    /\ log' = Append(log, Ev("lis", Top.from, "", TRUE))
    /\ UNCHANGED <<dom, dom0, from, to, entry, preserveChanges, vetoBudget, idMap, pc, vetoes, paired, descended>>

FindLIS ==
    /\ AtChildren("remove")
    /\ Top.removals = <<>>
    /\ stack' = [stack EXCEPT ![1].phase = "walk",
                              ![1].shouldNotMove = ShouldNotMove(Top.matches),
                              ![1].insertionPoint = FirstChild(dom, Top.from),
                              ![1].i = 1]
    /\ log' = Append(log, Ev("lis", Top.from, "", TRUE))
    /\ UNCHANGED <<dom, dom0, from, to, entry, preserveChanges, vetoBudget, idMap, pc, vetoes, paired, descended>>

\* the reorder walk on a matched reference child: move unless fixed, then morph
MoveAndVisit ==
    /\ AtChildren("walk")
    /\ Top.i <= Len(Top.toChildNodes)
    /\ Top.matches[Top.i] # 0
    /\ LET matchInd == Top.matches[Top.i]
           match == Top.fromChildNodes[matchInd]
           moving == matchInd \notin Top.shouldNotMove
       IN /\ dom' = IF moving THEN MoveBefore(dom, Top.from, match, Top.insertionPoint) ELSE dom
          /\ log' = IF moving /\ MoveNeeded(dom, Top.from, match, Top.insertionPoint)
                    THEN Append(log, Ev("move", match, "", TRUE)) ELSE log
          /\ stack' = <<PairFrame(match, Top.toChildNodes[Top.i])>> \o stack
    /\ UNCHANGED <<dom0, from, to, entry, preserveChanges, vetoBudget, idMap, pc, vetoes, paired, descended>>

\* the reorder walk on an unmatched reference child: the node itself is inserted
AddNode ==
    /\ AtChildren("walk")
    /\ Top.i <= Len(Top.toChildNodes)
    /\ Top.matches[Top.i] = 0
    /\ LET node == Top.toChildNodes[Top.i] IN
       \E ok \in BOOLEAN :
         /\ (~ok => CanVeto)
         /\ vetoes' = vetoes + (IF ok THEN 0 ELSE 1)
         /\ IF ok
            THEN LET d1 == InsertBefore(dom, Top.from, node, Top.insertionPoint)
                 IN /\ dom' = d1
                    /\ log' = log \o <<Ev("beforeNodeAdded", node, "", TRUE), Ev("insert", node, "", TRUE),
                                       Ev("afterNodeAdded", node, "", TRUE)>>
                    /\ stack' = [stack EXCEPT ![1].i = @ + 1, ![1].insertionPoint = NextSibling(d1, node)]
            ELSE /\ dom' = dom
                 /\ log' = Append(log, Ev("beforeNodeAdded", node, "", FALSE))
                 /\ stack' = [stack EXCEPT ![1].i = @ + 1]
    /\ UNCHANGED <<dom0, from, to, entry, preserveChanges, vetoBudget, idMap, pc, paired, descended>>

\* #morphOneToMany: one remaining node goes before from.nextSibling, in
\* from.parentNode || document as they are after the first pair was morphed
OneToManyAdd ==
    /\ AtMany
    /\ Top.i <= Len(Top.toChildNodes)
    /\ LET newNode == Top.toChildNodes[Top.i]
           parent == IF ParentOf(dom, Top.from) = Null THEN Document ELSE ParentOf(dom, Top.from)
       IN \E ok \in BOOLEAN :
            /\ (~ok => CanVeto)
            /\ vetoes' = vetoes + (IF ok THEN 0 ELSE 1)
            /\ IF ~ok
               THEN /\ dom' = dom
                    /\ log' = Append(log, Ev("beforeNodeAdded", newNode, "", FALSE))
                    /\ stack' = [stack EXCEPT ![1].i = @ + 1]
                    /\ pc' = pc
               ELSE IF InsertRejected(dom, parent, newNode, Top.insertionPoint)
               THEN /\ dom' = dom
                    /\ log' = Append(log, Ev("beforeNodeAdded", newNode, "", TRUE))
                    /\ stack' = <<>>
                    /\ pc' = "error"
               ELSE /\ dom' = InsertBefore(dom, parent, newNode, Top.insertionPoint)
                    /\ log' = log \o <<Ev("beforeNodeAdded", newNode, "", TRUE), Ev("insert", newNode, "", TRUE),
                                       Ev("afterNodeAdded", newNode, "", TRUE)>>
                    /\ stack' = [stack EXCEPT ![1].i = @ + 1]
                    /\ pc' = pc
    /\ UNCHANGED <<dom0, from, to, entry, preserveChanges, vetoBudget, idMap, paired, descended>>

\* #morphOneToMany: every remaining node was handled
OneToManyEnd ==
    /\ AtMany
    /\ Top.i > Len(Top.toChildNodes)
    /\ stack' = <<>>
    /\ pc' = "done"
    /\ UNCHANGED <<dom, dom0, from, to, entry, preserveChanges, vetoBudget, idMap, log, vetoes, paired, descended>>

\* the end of visitChildNodes: afterChildrenVisited, back in #morphMatchingElements
AfterChildrenVisited ==
    /\ AtChildren("walk")
    /\ Top.i > Len(Top.toChildNodes)
    /\ log' = Append(log, Ev("afterChildrenVisited", Top.from, "", TRUE))
    /\ stack' = Tail(stack)
    /\ UNCHANGED <<dom, dom0, from, to, entry, preserveChanges, vetoBudget, idMap, pc, vetoes, paired, descended>>

----
\* The inputs of a call: a current tree attached to a container, a detached
\* reference tree, and the options

Tpl(nodeType, lname, attrs, text, sub) ==
    [nodeType |-> nodeType, lname |-> lname, attrs |-> attrs, text |-> text, sub |-> sub,
     val |-> "", dval |-> FALSE, chk |-> FALSE, dchk |-> FALSE]

Elem(lname, attrs, sub) == Tpl(ELEMENT_NODE_TYPE, lname, attrs, "", sub)

TextTpl(s) == Tpl(TEXT_NODE_TYPE, "", <<>>, s, <<>>)

CommentTpl(s) == Tpl(COMMENT_NODE_TYPE, "", <<>>, s, <<>>)

WithId(id) == IF id = "" THEN <<>> ELSE <<Attr("id", id)>>

\* the node of a template, given its child list
NodeOf(tpl, kids) ==
    [nodeType |-> tpl.nodeType, lname |-> tpl.lname, attrs |-> tpl.attrs, text |-> tpl.text, kids |-> kids,
     val |-> tpl.val, dval |-> tpl.dval, chk |-> tpl.chk, dchk |-> tpl.dchk]

KidIds(base, tpls) == [i \in 1..Len(tpls) |-> base + i]

SubIds(base, tpls, i) == IF tpls[i].sub = <<>> THEN <<>> ELSE <<base + SubOffset + i>>

TreeIds(root, base, tpls) ==
    {root} \cup {base + i : i \in 1..Len(tpls)}
           \cup {base + SubOffset + i : i \in {k \in 1..Len(tpls) : tpls[k].sub # <<>>}}

\* the heap of one tree: a root with the children the templates describe
Tree(root, rootTpl, base, tpls) ==
    [n \in TreeIds(root, base, tpls) |->
        IF n = root THEN NodeOf(rootTpl, KidIds(base, tpls))
        ELSE IF n > base + SubOffset THEN NodeOf(tpls[n - base - SubOffset].sub[1], <<>>)
        ELSE NodeOf(tpls[n - base], SubIds(base, tpls, n - base))]

Heap(fromTpl, fromKids, toTpl, toKids) ==
    (Container :> MkNode(ELEMENT_NODE_TYPE, "body", <<>>, "", <<FromRoot>>))
        @@ Tree(FromRoot, fromTpl, FromBase, fromKids)
        @@ Tree(ToRoot, toTpl, ToBase, toKids)

SeqsUpTo(S, n) == UNION {[1..k -> S] : k \in 0..n}

Div == Elem("div", <<>>, <<>>)

\* elements that the id passes tell apart
StructTemplates ==
    {Elem("div", WithId("x"), <<>>),
     Elem("span", WithId("x"), <<>>),
     Elem("div", <<>>, <<Elem("b", WithId("y"), <<>>)>>),
     Elem("div", WithId("x"), <<Elem("b", WithId("y"), <<>>)>>),
     TextTpl("t")}

\* text, whitespace and comment children
NodeTemplates ==
    {TextTpl("t"), TextTpl("u"), TextTpl(" "), CommentTpl("t"), Elem("div", <<>>, <<>>)}

OptAttr(name, value) == IF value = NoAttr THEN <<>> ELSE <<Attr(name, value)>>

Flag(name, on) == IF on THEN <<Attr(name, "")>> ELSE <<>>

\* an input with its attributes and with what the user did to it
InputTpl(name, value, checked, dval, val, dchk, chk) ==
    [Elem("input", OptAttr("name", name) \o OptAttr("value", value) \o Flag("checked", checked), <<>>)
        EXCEPT !.dval = dval, !.val = val, !.dchk = dchk, !.chk = chk]

CurrentInputs ==
    {InputTpl(name, value, checked, u[1], u[2], c[1], c[2]) :
        name \in {NoAttr, "n"}, value \in {NoAttr, "a"}, checked \in BOOLEAN,
        u \in {<<FALSE, "">>, <<TRUE, "a">>, <<TRUE, "c">>},
        c \in {<<FALSE, FALSE>>, <<TRUE, TRUE>>, <<TRUE, FALSE>>}}

ReferenceInputs(name) ==
    {InputTpl(name, value, checked, FALSE, "", FALSE, FALSE) :
        value \in {NoAttr, "a", "b"}, checked \in BOOLEAN}

NameOf(tpl) == GetAttr(tpl, "name")

\* a textarea with its text child and with what the user typed
TextAreaTpl(text, dval, val) ==
    [Elem("textarea", <<>>, IF text = "" THEN <<>> ELSE <<TextTpl(text)>>)
        EXCEPT !.dval = dval, !.val = val]

CurrentTextAreas ==
    {TextAreaTpl(text, u[1], u[2]) :
        text \in {"", "a"}, u \in {<<FALSE, "">>, <<TRUE, "a">>, <<TRUE, "c">>}}

ReferenceTextAreas == {TextAreaTpl(text, FALSE, "") : text \in {"", "a", "b"}}

IdStr == <<"1", "2", "3", "4", "5", "6", "7">>

Li(k) == Elem("li", WithId(IdStr[k]), <<>>)

Perms(n) == {p \in [1..n -> 1..n] : \A i, j \in 1..n : p[i] = p[j] => i = j}

StartCall(heap, f, t, preserve, entryPoint, budget) ==
    /\ dom = heap
    /\ dom0 = heap
    /\ from = f
    /\ to = t
    /\ entry = entryPoint
    /\ preserveChanges = preserve
    /\ vetoBudget = budget
    /\ idMap = [n \in DOMAIN heap |-> {}]
    /\ stack = <<>>
    /\ pc = "init"
    /\ log = <<>>
    /\ vetoes = 0
    /\ paired = {}
    /\ descended = {}

StartWith(heap, preserve, entryPoint, budget) == StartCall(heap, FromRoot, ToRoot, preserve, entryPoint, budget)

StartAt(heap, preserve, entryPoint) == StartWith(heap, preserve, entryPoint, MaxVetoes)

Start(heap, preserve) == StartAt(heap, preserve, "morph")

\* element children told apart by id and id set
InitStruct ==
    \E fk \in SeqsUpTo(StructTemplates, MaxFromKids), tk \in SeqsUpTo(StructTemplates, MaxToKids) :
        Start(Heap(Div, fk, Div, tk), FALSE)

\* text, whitespace and comment children
InitNodes ==
    \E fk \in SeqsUpTo(NodeTemplates, MaxFromKids), tk \in SeqsUpTo(NodeTemplates, MaxToKids) :
        Start(Heap(Div, fk, Div, tk), FALSE)

\* an input pair, as the root pair or as the only children of the root pair
InitInputs ==
    \E a \in CurrentInputs, preserve \in BOOLEAN, asRoot \in BOOLEAN :
        \E b \in ReferenceInputs(NameOf(a)) :
            IF asRoot THEN Start(Heap(a, <<>>, b, <<>>), preserve)
            ELSE Start(Heap(Div, <<a>>, Div, <<b>>), preserve)

\* a textarea pair, as the root pair or as the only children of the root pair
InitTextAreas ==
    \E a \in CurrentTextAreas, b \in ReferenceTextAreas, preserve \in BOOLEAN, asRoot \in BOOLEAN :
        IF asRoot THEN Start(Heap(a, a.sub, b, b.sub), preserve)
        ELSE Start(Heap(Div, <<a>>, Div, <<b>>), preserve)

\* the reference children are a permutation of the current children
InitPermutations ==
    \E n \in 1..MaxPerm : \E p \in Perms(n) : \E rootAttrs \in {<<>>, <<Attr("class", "c")>>} :
        Start(Heap(Elem("ul", <<>>, <<>>), [i \in 1..n |-> Li(i)],
                   Elem("ul", rootAttrs, <<>>), [i \in 1..n |-> Li(p[i])]), FALSE)

\* a node list, or the tokens of a string
FragmentTpl(kind) == Tpl(DOCUMENT_FRAGMENT_NODE_TYPE, kind, <<>>, "", <<>>)

\* the parser merges adjacent text, so the tokens of a string have none
NoAdjacentText(tokens) ==
    \A i \in 1..(Len(tokens) - 1) :
        ~(tokens[i].nodeType = TEXT_NODE_TYPE /\ tokens[i + 1].nodeType = TEXT_NODE_TYPE)

SeqTemplates ==
    {Elem("div", <<Attr("class", "c")>>, <<>>), Elem("span", <<>>, <<>>),
     TextTpl("t"), TextTpl(" "), CommentTpl("t")}

\* the current tree inside a document, with or without a node after `from`
HeapInDocument(heap, withSibling) ==
    [heap EXCEPT ![Container].kids = IF withSibling THEN <<FromRoot, Sibling>> ELSE <<FromRoot>>]
        @@ (Document :> MkNode(DOCUMENT_NODE_TYPE, "#document", <<>>, "", <<Container>>))
        @@ (Sibling :> MkNode(ELEMENT_NODE_TYPE, "hr", <<>>, "", <<>>))

\* morph(from, to) with a node list or a string for `to`
InitMany ==
    \E a \in {Elem("div", WithId("x"), <<>>), TextTpl("t")}, kind \in {"#nodelist", "#string"},
       seq \in SeqsUpTo(SeqTemplates, MaxSeq), withSibling \in BOOLEAN :
        /\ kind = "#string" => NoAdjacentText(seq)
        /\ Start(HeapInDocument(Heap(a, <<>>, FragmentTpl(kind), seq), withSibling), FALSE)

TokenTemplates ==
    {Elem("div", <<Attr("class", "d")>>, <<>>), Elem("div", <<Attr("class", "d")>>, <<Elem("b", WithId("y"), <<>>)>>),
     Elem("span", <<>>, <<>>), TextTpl("t"), TextTpl(" "), CommentTpl("t")}

InnerKids == {Elem("div", WithId("x"), <<>>), Elem("b", WithId("y"), <<>>), TextTpl("t")}

\* morphInner(from, to) with a node or a string for `to`
InitInner ==
    \E fk \in SeqsUpTo(InnerKids, 1), elementFrom \in BOOLEAN :
        LET a == IF elementFrom THEN Elem("div", <<Attr("class", "c")>>, <<>>) ELSE TextTpl("t")
            kids == IF elementFrom THEN fk ELSE <<>>
        IN /\ (~elementFrom => fk = <<>>)
           /\ \/ \E tk \in SeqsUpTo(InnerKids, 2), b \in {Elem("div", <<Attr("class", "d")>>, <<>>),
                                                          Elem("span", <<>>, <<>>), TextTpl("t")} :
                    /\ (b.nodeType # ELEMENT_NODE_TYPE => tk = <<>>)
                    /\ StartAt(Heap(a, kids, b, tk), FALSE, "morphInner")
              \/ \E tokens \in SeqsUpTo(TokenTemplates, MaxSeq) :
                    /\ NoAdjacentText(tokens)
                    /\ StartAt(Heap(a, kids, FragmentTpl("#string"), tokens), FALSE, "morphInner")

\* morphInner(from, to) on children told apart by id and id set
InitInnerIds ==
    \E fk \in SeqsUpTo(StructTemplates \ {TextTpl("t")}, MaxFromKids), tk \in SeqsUpTo(StructTemplates \ {TextTpl("t")}, 1) :
        StartAt(Heap(Div, fk, Div, tk), FALSE, "morphInner")

\* an input with a type, with or without an id and a name
TypedInput(type, id, name) == Elem("input", <<Attr("type", type)>> \o WithId(id) \o OptAttr("name", name), <<>>)

TypedInputs == {TypedInput(type, id, name) : type \in {"text", "checkbox"}, id \in {"", "a"}, name \in {NoAttr, "n"}}

\* a pair of inputs of any two types, as the root pair or as the only children
InitInputTypes ==
    \E a \in TypedInputs, b \in TypedInputs, asRoot \in BOOLEAN :
        IF asRoot THEN Start(Heap(a, <<>>, b, <<>>), FALSE)
        ELSE Start(Heap(Div, <<a>>, Div, <<b>>), FALSE)

\* the children of the document elements
DocumentKids == {Elem("head", <<>>, <<>>), Elem("body", <<Attr("class", "c")>>, <<>>), Elem("body", <<>>, <<TextTpl("t")>>)}

\* two documents: `from` and `to` (a string is a document once parsed), each with its html element
InitDocument ==
    \E fk \in SeqsUpTo(DocumentKids, MaxFromKids), tk \in SeqsUpTo(DocumentKids, MaxFromKids), preserve \in BOOLEAN :
        LET heap == Heap(Elem("html", <<>>, <<>>), fk, Elem("html", <<>>, <<>>), tk)
            docs == [heap EXCEPT ![Container] = MkNode(DOCUMENT_NODE_TYPE, "#document", <<>>, "", <<FromRoot>>)]
                        @@ (ToDocument :> MkNode(DOCUMENT_NODE_TYPE, "#document", <<>>, "", <<ToRoot>>))
        IN StartCall(docs, Container, ToDocument, preserve, "morphDocument", MaxVetoes)

\* morph(from, to) on roots of every kind: an element, a text node, a comment
RootTemplates == {Div, TextTpl("a"), TextTpl("b"), CommentTpl("a"), CommentTpl("b")}

RootKids(tpl) == IF IsElement(tpl) THEN SeqsUpTo({TextTpl("t"), Elem("span", <<>>, <<>>)}, MaxFromKids) ELSE {<<>>}

InitRoots ==
    \E ft \in RootTemplates, tt \in RootTemplates, preserve \in BOOLEAN :
        \E fk \in RootKids(ft), tk \in RootKids(tt) :
            Start(Heap(ft, fk, tt, tk), preserve)

\* the reference children are some of the current children, in any order,
\* among new elements: the match sequence has present and absent entries
NewOrLi(n) == {Li(i) : i \in 1..n} \cup {Elem("p", <<>>, <<>>)}

InitSubsequences ==
    \E n \in 1..MaxLis : \E tk \in SeqsUpTo(NewOrLi(n), MaxLis) :
        /\ \A i, j \in 1..Len(tk) : (tk[i] = tk[j] /\ tk[i].lname = "li") => i = j
        /\ Start(Heap(Elem("ul", <<>>, <<>>), [i \in 1..n |-> Li(i)], Elem("ul", <<>>, <<>>), tk), FALSE)

Init ==
    \/ InitStruct
    \/ InitDocument
    \/ InitNodes
    \/ InitInputs
    \/ InitTextAreas
    \/ InitPermutations
    \/ InitMany
    \/ InitInner
    \/ InitInnerIds
    \/ InitInputTypes
    \/ InitRoots
    \/ InitSubsequences

Next ==
    \/ MorphDocument
    \/ Morph
    \/ MorphInner
    \/ FastPath
    \/ BeforeNodeVisitedFalse
    \/ MorphMatchingElements
    \/ VisitTextArea
    \/ NoChildNodes
    \/ BeforeChildrenVisitedFalse
    \/ VisitChildNodes
    \/ MorphNonMatchingElements
    \/ MorphOtherNode
    \/ AfterNodeVisited
    \/ RemoveNode
    \/ FindLIS
    \/ MoveAndVisit
    \/ AddNode
    \/ OneToManyAdd
    \/ OneToManyEnd
    \/ AfterChildrenVisited

Spec == Init /\ [][Next]_vars

\* children whose every hook may refuse
VetoTemplates == {Elem("div", WithId("x"), <<>>), Elem("span", <<Attr("class", "c")>>, <<>>), TextTpl("t")}

\* calls in which up to MaxVetoesAll hook calls return false
InitVetoes ==
    \E fk \in SeqsUpTo(VetoTemplates, MaxFromKids), tk \in SeqsUpTo(VetoTemplates, MaxFromKids) :
        StartWith(Heap(Div, fk, Div, tk), FALSE, "morph", MaxVetoesAll)

\* longest child list, token list and permutation of the calls whose termination is checked
MaxLiveLen == 2
MaxLivePerm == 4

\* the calls whose termination is checked: every entry point, every kind of
\* `to`, every family of inputs, on shorter lists, and the calls whose hooks
\* refuse wherever they can
InitLive ==
    \/ InitVetoes
    \/ InitTextAreas
    \/ InitInputTypes
    \/ InitDocument /\ ~preserveChanges
    \/ InitMany /\ Len(dom[to].kids) <= MaxLiveLen
    \/ InitInner /\ Len(dom[to].kids) < MaxLiveLen
    \/ InitPermutations /\ Len(dom[from].kids) <= MaxLivePerm

\* a call is one synchronous thread of control: it takes its next step as long
\* as it has one
LiveSpec == InitLive /\ [][Next]_vars /\ WF_vars(Next)

----
\* Vocabulary of the properties

Done == pc = "done"

NoVeto == vetoes = 0

SubtreeOf(d, n) == {n} \cup Range(Descendants(d, n))

\* the nodes of the two trees when the call started
CurrentNodes0 == SubtreeOf(dom0, from)

ReferenceNodes0 == SubtreeOf(dom0, to)

SameKindAndName(a, b) == a.nodeType = b.nodeType /\ a.lname = b.lname

----
\* C1: with no hook returning false, after morph returns every parent pair the
\* engine descended into has as many current children as the reference parent
\* had at the start, and the i-th current child has the kind and local name of
\* the i-th reference child.
C1_ChildrenCountAndOrder ==
    (Done /\ NoVeto) =>
        \A pr \in descended :
            /\ Len(dom[pr[1]].kids) = Len(dom0[pr[2]].kids)
            /\ \A i \in 1..Len(dom0[pr[2]].kids) :
                 i <= Len(dom[pr[1]].kids)
                    => SameKindAndName(dom[dom[pr[1]].kids[i]], dom0[dom0[pr[2]].kids[i]])

\* C2: with no hook returning false, every current child the child matcher
\* paired with a reference child is, after the morph, still a child of the same
\* parent, at the position of that reference child.
C2_MatchedNodeKept ==
    (Done /\ NoVeto) =>
        \A m \in paired :
            /\ ParentOf(dom, m.cur) = m.parent
            /\ m.at <= Len(dom[m.parent].kids)
            /\ dom[m.parent].kids[m.at] = m.cur

\* C3: for every child of the reference root that carries a non-empty id
\* which exactly one child of the current root, an element of the same local
\* name, carried too, the current child found after the morph at that
\* reference child's position is the element that carried the id.
C3_SameIdSameNode ==
    (Done /\ NoVeto /\ BothElements(dom0, from, to) /\ dom0[from].lname = dom0[to].lname) =>
        \A j \in 1..Len(dom0[to].kids) :
            LET b == dom0[to].kids[j]
                carriers == {a \in Range(dom0[from].kids) :
                                SameKindAndName(dom0[a], dom0[b]) /\ IdOf(dom0[a]) = IdOf(dom0[b])}
                sameId == {c \in CurrentNodes0 \ {from} : IsElement(dom0[c]) /\ IdOf(dom0[c]) = IdOf(dom0[b])}
                sameIdRef == {c \in ReferenceNodes0 \ {to} : IsElement(dom0[c]) /\ IdOf(dom0[c]) = IdOf(dom0[b])}
            IN (/\ IsElement(dom0[b])
                /\ IdOf(dom0[b]) # ""
                /\ Cardinality(carriers) = 1
                /\ sameId = carriers
                /\ sameIdRef = {b})
                  => /\ j <= Len(dom[from].kids)
                     /\ dom[from].kids[j] \in carriers

\* C5: a morph never changes the reference tree: every reference node keeps
\* its parent and its child list.
C5_ReferenceUnchanged ==
    \A n \in ReferenceNodes0 :
        /\ dom[n].kids = dom0[n].kids
        /\ ParentOf(dom, n) = ParentOf(dom0, n)

----
\* Reading the trace

Has(e) == \E i \in 1..Len(log) : log[i] = e

HasEv(ev, n) == \E i \in 1..Len(log) : log[i].ev = ev /\ log[i].node = n

Refused(ev, n) == Has(Ev(ev, n, "", FALSE))

RefusedAttr(n, name) == Has(Ev("beforeAttributeUpdated", n, name, FALSE))

\* the input pairs of the call: the root pair and the pairs of the child matcher
InputPairs ==
    {pr \in {<<from, to>>} \cup {<<m.cur, m.ref>> : m \in paired} :
        dom0[pr[1]].lname = "input" /\ dom0[pr[2]].lname = "input"}

UserChangedValue(n) == LiveValue(dom0, n) # DefaultValue(dom0, n)

UserChangedChecked(n) == LiveChecked(dom0, n) # DefaultChecked(dom0, n)

----
\* C4: the step that runs the attribute morpher on a matching element pair
\* leaves the current element with the reference's attribute map, except for
\* the attributes whose beforeAttributeUpdated returned false in that step,
\* which keep the value (or absence) they had before it.
C4_AttributesEqualReference ==
    [][(AtPair("start") /\ stack' # <<>> /\ stack'[1].phase = "children") =>
        LET f == Top.from
            t == Top.to
            refused == {log'[k].name : k \in {j \in (Len(log) + 1)..Len(log') :
                            log'[j].ev = "beforeAttributeUpdated" /\ ~log'[j].ok}}
        IN \A name \in AttrNames(dom[f]) \cup AttrNames(dom'[f]) \cup AttrNames(dom[t]) :
              IF name \in refused
              THEN GetAttr(dom'[f], name) = GetAttr(dom[f], name)
              ELSE GetAttr(dom'[f], name) = GetAttr(dom[t], name)]_vars

\* C4 witness: the attribute morpher has updated one attribute, removed
\* another, and left a refused one alone
C4_Witness ==
    /\ \E n \in DOMAIN dom, a \in {"value", "checked", "name"} :
          /\ RefusedAttr(n, a)
          /\ \E b \in {"value", "checked", "name"} :
                Has(Ev("setAttribute", n, b, TRUE)) \/ Has(Ev("removeAttribute", n, b, TRUE))
    /\ stack # <<>>
    /\ Top.op = "pair"
    /\ Top.phase = "children"

----
\* C7: every insertion recorded in the trace directly follows an approving
\* beforeNodeAdded for that node and is followed by its afterNodeAdded; every
\* removal follows an approving beforeNodeRemoved for that node and is
\* followed by its afterNodeRemoved.
C7_HookPairAroundMutation ==
    \A i \in 1..Len(log) :
        /\ log[i].ev = "insert" =>
            /\ i > 1
            /\ log[i - 1] = Ev("beforeNodeAdded", log[i].node, "", TRUE)
            /\ i < Len(log)
            /\ log[i + 1] = Ev("afterNodeAdded", log[i].node, "", TRUE)
        /\ log[i].ev = "remove" =>
            /\ \E k \in 1..(i - 1) : log[k] = Ev("beforeNodeRemoved", log[i].node, "", TRUE)
            /\ i < Len(log)
            /\ log[i + 1] = Ev("afterNodeRemoved", log[i].node, "", TRUE)

----
\* C8: with preserveChanges, after the morph an input whose live value the
\* user had changed away from its default still has that live value, and one
\* whose checked state the user had changed still has that state; the value
\* and checked attributes are the reference's unless the pair's visit or that
\* attribute's update was refused.
C8_UserStatePreserved ==
    (Done /\ preserveChanges) =>
        \A pr \in InputPairs :
            LET f == pr[1]
                t == pr[2]
            IN /\ UserChangedValue(f) =>
                    /\ LiveValue(dom, f) = LiveValue(dom0, f)
                    /\ (~Refused("beforeNodeVisited", f) /\ ~RefusedAttr(f, "value"))
                          => GetAttr(dom[f], "value") = GetAttr(dom0[t], "value")
               /\ UserChangedChecked(f) =>
                    /\ LiveChecked(dom, f) = LiveChecked(dom0, f)
                    /\ (~Refused("beforeNodeVisited", f) /\ ~RefusedAttr(f, "checked"))
                          => GetAttr(dom[f], "checked") = GetAttr(dom0[t], "checked")

\* C8 witness: an input the user changed was morphed against a reference that
\* declares another value, and its value attribute was rewritten
C8_Witness ==
    /\ Done
    /\ preserveChanges
    /\ \E pr \in InputPairs :
          /\ UserChangedValue(pr[1])
          /\ UserChangedChecked(pr[1])
          /\ LiveValue(dom0, pr[1]) # DefaultValue(dom0, pr[2])
          /\ Has(Ev("setAttribute", pr[1], "value", TRUE))
          /\ GetAttr(dom[pr[1]], "checked") # GetAttr(dom0[pr[1]], "checked")

----
\* C9: with preserveChanges disabled and no hook returning false, after the
\* morph every input paired with a reference input has the reference's declared
\* value as live value and the presence of the reference's checked attribute as
\* live checked state.
C9_LiveStateIsReference ==
    (Done /\ ~preserveChanges /\ NoVeto) =>
        \A pr \in InputPairs :
            /\ LiveValue(dom, pr[1]) = DefaultValue(dom0, pr[2])
            /\ LiveChecked(dom, pr[1]) = DefaultChecked(dom0, pr[2])

----
\* Comparing a current subtree with a subtree of the heap the call started on

RECURSIVE SameTree(_, _, _, _)
SameTree(d1, a, d2, b) ==
    /\ d1[a].nodeType = d2[b].nodeType
    /\ d1[a].lname = d2[b].lname
    /\ d1[a].text = d2[b].text
    /\ AttrSet(d1[a]) = AttrSet(d2[b])
    /\ Len(d1[a].kids) = Len(d2[b].kids)
    /\ \A i \in 1..Len(d1[a].kids) :
          i <= Len(d2[b].kids) => SameTree(d1, d1[a].kids[i], d2, d2[b].kids[i])

\* some hook returned false for a node of the subtrees of the pair (cur, ref)
RefusedWithin(cur, ref) ==
    \E i \in 1..Len(log) :
        /\ ~log[i].ok
        /\ log[i].node \in SubtreeOf(dom0, cur) \cup SubtreeOf(dom0, ref)

GatedByVisit == {"afterNodeVisited", "beforeChildrenVisited", "afterChildrenVisited",
                 "beforeAttributeUpdated", "setAttribute", "removeAttribute", "setData"}

\* C6: a hook that returned false cancels what it gates and its after-hook:
\* a refused visit leaves the node's attributes, data and children alone, a
\* refused children visit leaves the child list alone, a refused addition or
\* removal leaves the node where it was, a refused attribute update leaves the
\* attribute alone; and the rest of the child list is still processed: every
\* unmatched current child is removed unless its own removal was refused, and
\* every matched pair no hook refused anything in ends equal to the reference.
C6_VetoCancelsOnlyItsOwnMutation ==
    /\ \A n \in DOMAIN dom0 :
          /\ Refused("beforeNodeVisited", n) =>
                /\ \A i \in 1..Len(log) : log[i].node = n => log[i].ev \notin GatedByVisit
                /\ dom[n].kids = dom0[n].kids
                /\ dom[n].text = dom0[n].text
          /\ Refused("beforeChildrenVisited", n) =>
                /\ ~HasEv("afterChildrenVisited", n)
                /\ ~HasEv("lis", n)
                /\ dom[n].kids = dom0[n].kids
          /\ Refused("beforeNodeAdded", n) =>
                /\ ~HasEv("insert", n)
                /\ ~HasEv("afterNodeAdded", n)
                /\ ParentOf(dom, n) = ParentOf(dom0, n)
          /\ Refused("beforeNodeRemoved", n) =>
                /\ ~HasEv("remove", n)
                /\ ~HasEv("afterNodeRemoved", n)
                /\ ParentOf(dom, n) = ParentOf(dom0, n)
          /\ \A name \in {"name", "value", "checked", "id"} :
                RefusedAttr(n, name) =>
                    /\ ~Has(Ev("setAttribute", n, name, TRUE))
                    /\ ~Has(Ev("removeAttribute", n, name, TRUE))
                    /\ ~Has(Ev("afterAttributeUpdated", n, name, TRUE))
                    /\ GetAttr(dom[n], name) = GetAttr(dom0[n], name)
    /\ Done =>
          \A pr \in descended :
              /\ \A c \in Range(dom0[pr[1]].kids) :
                    (\A m \in paired : m.cur # c) =>
                        \/ Refused("beforeNodeRemoved", c)
                        \/ HasEv("remove", c) /\ ParentOf(dom, c) = Null
              /\ \A m \in paired :
                    (m.parent = pr[1] /\ ~RefusedWithin(m.cur, m.ref)) =>
                        IF SameKindAndName(dom0[m.cur], dom0[m.ref])
                        THEN ParentOf(dom, m.cur) = pr[1] /\ SameTree(dom, m.cur, dom0, m.ref)
                        ELSE ParentOf(dom, m.ref) = pr[1]

\* C6 witness: the removal of one unmatched child was refused and it stayed,
\* and a sibling of it was removed all the same
C6_Witness ==
    /\ Done
    /\ \E n \in DOMAIN dom0, c \in DOMAIN dom0 :
          /\ n # c
          /\ ParentOf(dom0, n) = ParentOf(dom0, c)
          /\ Refused("beforeNodeRemoved", n)
          /\ ParentOf(dom, n) = ParentOf(dom0, n)
          /\ HasEv("remove", c)

----
\* The reorder walk measured against the definition of the subsequence

\* the root pair's children are elements with ids and the reference list is a
\* rearrangement of the current list
IsPermutation ==
    LET fk == dom0[from].kids
        tk == dom0[to].kids
    IN /\ BothElements(dom0, from, to)
       /\ dom0[from].lname = dom0[to].lname
       /\ Len(fk) = Len(tk)
       /\ Len(fk) >= 1
       /\ \A i \in 1..Len(fk) : IsElement(dom0[fk[i]]) /\ IdOf(dom0[fk[i]]) # ""
       /\ \E p \in Perms(Len(fk)) :
             \A i \in 1..Len(fk) : i <= Len(tk) => IsEqualNode(dom0, fk[i], tk[p[i]])

\* for each reference child, the index of the current child matched with it, 0 if none
MatchedIndex ==
    [j \in 1..Len(dom0[to].kids) |->
        LET ms == {m \in paired : m.parent = from /\ m.ref = dom0[to].kids[j]}
        IN IF ms = {} THEN 0 ELSE IndexOf(dom0[from].kids, (CHOOSE m \in ms : TRUE).cur)]

MatchedCount == Cardinality({j \in DOMAIN MatchedIndex : MatchedIndex[j] # 0})

\* the length of the longest strictly increasing subsequence, by definition
LisLength(sequence) ==
    Max({0} \cup {Cardinality(S) : S \in {T \in SUBSET DOMAIN sequence :
                    /\ \A i \in T : sequence[i] # 0
                    /\ \A i, j \in T : i < j => sequence[i] < sequence[j]}})

MoveCount == Cardinality({i \in 1..Len(log) : log[i].ev = "move" /\ log[i].node \in Range(dom0[from].kids)})

\* C10: when the reference child list is a rearrangement of the current child
\* list, the reorder walk performs as many moves as there are matched children
\* minus the length of the longest increasing subsequence of their indices,
\* and none when the order is unchanged.
C10_MovesAreMatchedMinusLIS ==
    (Done /\ NoVeto /\ IsPermutation) =>
        /\ HasEv("lis", from) => MatchedCount = Len(dom0[to].kids)
        /\ MoveCount = MatchedCount - LisLength(MatchedIndex)
        /\ (\A i \in 1..Len(dom0[from].kids) : MatchedIndex[i] = i) => MoveCount = 0

\* C10 witness: five children rearranged with exactly one move
C10_Witness ==
    /\ Done
    /\ NoVeto
    /\ IsPermutation
    /\ Len(dom0[to].kids) = 5
    /\ LisLength(MatchedIndex) = 4
    /\ MoveCount = 1

----
\* C11: morphing a tree against a deep copy of itself with default options
\* commits no structural mutation and no attribute mutation.
StructuralEvents == {"insert", "remove", "move"}

AttributeEvents == {"setAttribute", "removeAttribute", "flagDirty"}

C11_EqualTreesNoMutation ==
    (Done /\ entry = "morph" /\ ~preserveChanges /\ NoVeto
          /\ ~IsNodeList(dom0, to) /\ IsEqualNode(dom0, from, to)) =>
        \A i \in 1..Len(log) : log[i].ev \notin StructuralEvents \cup AttributeEvents

----
\* C12: when the reference child list is the current child list with exactly
\* one element added (or one element missing), every other child deep-equal,
\* the morph performs one child-list mutation, that insertion (or removal).
RootPairMatches ==
    /\ entry = "morph"
    /\ BothElements(dom0, from, to)
    /\ dom0[from].lname = dom0[to].lname

\* the list `longer` is the list `shorter` with one element put in at k, an
\* element unlike every node of `shorter`
OneElementMore(shorter, longer) ==
    /\ Len(longer) = Len(shorter) + 1
    /\ \E k \in 1..Len(longer) :
          /\ IsElement(dom0[longer[k]])
          /\ \A i \in 1..Len(shorter) : ~IsEqualNode(dom0, shorter[i], longer[k])
          /\ \A i \in 1..Len(shorter) :
                \/ i < k /\ IsEqualNode(dom0, shorter[i], longer[i])
                \/ i >= k /\ IsEqualNode(dom0, shorter[i], longer[i + 1])

SimpleInsert == RootPairMatches /\ OneElementMore(dom0[from].kids, dom0[to].kids)

SimpleRemove == RootPairMatches /\ OneElementMore(dom0[to].kids, dom0[from].kids)

ChildListMutations == {i \in 1..Len(log) : log[i].ev \in StructuralEvents}

C12_SimpleInsertOrRemoveIsOneOperation ==
    (Done /\ NoVeto) =>
        /\ SimpleInsert => \E k \in 1..Len(log) : ChildListMutations = {k} /\ log[k].ev = "insert"
        /\ SimpleRemove => \E k \in 1..Len(log) : ChildListMutations = {k} /\ log[k].ev = "remove"

----
\* C13: a replacement is all or nothing: when beforeNodeRemoved or
\* beforeNodeAdded returns false in the step that replaces a node, the DOM is
\* unchanged and no after-hook is called; when both approve, the new node
\* stands where the old one stood, the old one is detached, and afterNodeAdded
\* and afterNodeRemoved are both called.
IsReplaceStep ==
    /\ AtPair("start")
    /\ ~IsFastPath(dom, Top.from, Top.to)
    /\ \/ BothElements(dom, Top.from, Top.to) /\ dom[Top.from].lname # dom[Top.to].lname
       \/ ~BothElements(dom, Top.from, Top.to) /\ ~SameKindData(dom, Top.from, Top.to)
    /\ stack' # <<>>
    /\ stack'[1].visited

ReferenceSequence == ParseFragment(dom0, to)[to].kids

IsSequenceCall == entry = "morph" /\ IsNodeList(dom0, to)

\* the call has returned or thrown
Ended == pc \in {"done", "error"}

\* the siblings that followed `from` in its parent when the call started
FollowingSiblings == SubSeq(dom0[Container].kids, 2, Len(dom0[Container].kids))

\* C14: with a reference sequence of two or more nodes and no veto, the call
\* ends without an error, the parent `from` had at the start holds, at `from`'s
\* place, `from` itself or the first reference node, directly followed by the
\* remaining reference nodes in sequence order and then by the siblings that
\* followed `from`; in place or replaced makes no difference.
C14_RemainderAfterFrom ==
    (Ended /\ IsSequenceCall /\ NoVeto /\ Len(ReferenceSequence) >= 2) =>
        /\ pc = "done"
        /\ \E at \in {from, ReferenceSequence[1]} :
              dom[Container].kids = <<at>> \o Tail(ReferenceSequence) \o FollowingSiblings

\* the positions of the log holding event `ev`
EventsOf(ev) == {i \in 1..Len(log) : log[i].ev = ev}

InnerFragment == ParseFragment(dom0, ToRoot)[ToRoot].kids

\* the string given to morphInner holds exactly one node, an element
InnerStringIsOneElement == Len(InnerFragment) = 1 /\ IsElement(dom0[InnerFragment[1]])

\* the reference of an inner morph: the node given, or the one element of the string
InnerReference == IF IsString(dom0, ToRoot) THEN InnerFragment[1] ELSE ToRoot

\* the two arguments of morphInner are elements of one local name
InnerPairMatches ==
    /\ IsString(dom0, ToRoot) => InnerStringIsOneElement
    /\ BothElements(dom0, from, InnerReference)
    /\ dom0[from].lname = dom0[InnerReference].lname

\* C16: once morphInner has been entered with arguments that are not two
\* elements of the same local name, or with a string that does not parse to
\* exactly one element, the call has failed with an error, no hook was called
\* and no node of the current tree was changed.
C16_InvalidInnerMorphFails ==
    (entry = "morphInner" /\ pc # "init" /\ ~InnerPairMatches) =>
        /\ pc = "error"
        /\ log = <<>>
        /\ \A n \in SubtreeOf(dom0, Container) : dom[n] = dom0[n]

\* a string of two roots whose first is an element named like `from` was refused
C16_Witness ==
    /\ entry = "morphInner" /\ pc = "error"
    /\ IsString(dom0, ToRoot)
    /\ Len(InnerFragment) = 2
    /\ BothElements(dom0, from, InnerFragment[1])
    /\ dom0[from].lname = dom0[InnerFragment[1]].lname

\* C17: from the moment morphInner has accepted its arguments until it
\* returns, the outer element `from` keeps its attributes and its local name
\* and stays the same child of the same parent, whatever attributes the
\* reference outer element has.
C17_InnerMorphKeepsOuterElement ==
    (entry = "morphInner" /\ pc \in {"run", "done"}) =>
        /\ dom[from].attrs = dom0[from].attrs
        /\ dom[from].lname = dom0[from].lname
        /\ dom[Container].kids = dom0[Container].kids
        /\ \A i \in 1..Len(log) :
              log[i].node = from => log[i].ev \notin StructuralEvents \cup AttributeEvents

\* an inner morph against an outer element with other attributes changed the children
C17_Witness ==
    /\ entry = "morphInner" /\ Done
    /\ AttrSet(dom0[from]) # AttrSet(dom0[InnerReference])
    /\ dom[from].kids # dom0[from].kids
    /\ SameTree(dom, dom[from].kids[1], dom0, dom0[InnerReference].kids[1])

\* ---------------------------------------------------------------------------
\* Inputs of different types

\* two input elements whose types differ when the call starts
InputsOfDifferentType(cur, ref) ==
    /\ dom0[cur].lname = "input" /\ dom0[ref].lname = "input"
    /\ InputType(dom0[cur]) # InputType(dom0[ref])

\* C18: when no hook refuses anything, the child matcher never pairs a
\* current input with a reference input of another type, and a root pair of
\* inputs of different types ends with the reference input in the current
\* input's place, the current input removed (one removal and one addition).
C18_InputsOfDifferentTypeNeverPaired ==
    (Done /\ NoVeto) =>
        /\ \A m \in paired : ~InputsOfDifferentType(m.cur, m.ref)
        /\ InputsOfDifferentType(from, to) =>
              /\ dom[Container].kids = <<to>>
              /\ HasEv("afterNodeRemoved", from)
              /\ HasEv("afterNodeAdded", to)

\* ---------------------------------------------------------------------------
\* Whitespace-only text children

\* the whitespace-only text children a node had when the call started
WhitespaceChildren0(p) == {c \in Range(dom0[p].kids) : IsWhitespaceText(dom0, c)}

\* C19: when no hook refuses anything, for every pair of parents whose
\* children were matched: if a whitespace-only text child of the current
\* parent is deep-equal to one of the reference parent, then one of the
\* current parent's whitespace-only text children is paired and is still a
\* child of the current parent at the end.
C19_EqualWhitespaceIsReused ==
    (Done /\ NoVeto) =>
        \A pr \in descended :
            (\E c \in WhitespaceChildren0(pr[1]), r \in WhitespaceChildren0(pr[2]) : IsEqualNode(dom0, c, r)) =>
                \E c \in WhitespaceChildren0(pr[1]) :
                    /\ c \in Range(dom[pr[1]].kids)
                    /\ \E m \in paired : m.cur = c

\* ---------------------------------------------------------------------------
\* Textareas

\* the textarea pairs of the call: the root pair and the pairs of the child matcher
TextAreaPairs ==
    {pr \in {<<from, to>>} \cup {<<m.cur, m.ref>> : m \in paired} :
        dom0[pr[1]].lname = "textarea" /\ dom0[pr[2]].lname = "textarea"}

\* C20: when no hook refuses anything, every textarea pair ends with the
\* current textarea's text content equal to the reference's; its live value
\* is the one it had before when preserveChanges is on and that value
\* differed from the default, and is the new default in every other case.
C20_TextAreaValue ==
    (Done /\ NoVeto) =>
        \A pr \in TextAreaPairs :
            /\ TextContent(dom, pr[1]) = TextContent(dom0, pr[2])
            /\ IF preserveChanges /\ UserChangedValue(pr[1])
               THEN LiveValue(dom, pr[1]) = LiveValue(dom0, pr[1])
               ELSE LiveValue(dom, pr[1]) = TextContent(dom0, pr[2])

\* ---------------------------------------------------------------------------
\* Termination

\* C21: every morph, morphInner and morphDocument call ends: it returns or
\* throws, whatever the hooks answer.
C21_CallTerminates == <>Ended

\* a call has returned although every one of its removals, two or more, was refused
C21_Witness ==
    /\ Done
    /\ Cardinality(EventsOf("beforeNodeRemoved")) >= 2
    /\ \A i \in EventsOf("beforeNodeRemoved") : ~log[i].ok

\* ---------------------------------------------------------------------------
\* The order of the matching passes

\* the step in which visitChildNodes matches the children of the pair on top
IsMatchStep ==
    /\ AtPair("children")
    /\ CallsVisitChildNodes
    /\ stack' # <<>>
    /\ stack'[1].op = "children"

\* C22: in every matching step, a reference element that the deep-equality
\* pass left unmatched, whose non-empty id no other such reference element
\* has, and for which exactly one candidate left by that pass has the same
\* local name and the same id, is paired with that candidate: an exact-id
\* pass that ends before any ID-set test pairs them.
C22_ExactIdBeforeIdSet ==
    [][IsMatchStep =>
        LET fromChildNodes == dom[Top.from].kids
            toChildNodes == dom[Top.to].kids
            st == RunPass(1, 1, dom, idMap, fromChildNodes, toChildNodes,
                          Classify(dom, fromChildNodes, toChildNodes))
        IN \A j \in st.unmatchedElements :
              LET sameId == {c \in st.candidateElements :
                                /\ dom[fromChildNodes[c]].lname = dom[toChildNodes[j]].lname
                                /\ IdOf(dom[fromChildNodes[c]]) = IdOf(dom[toChildNodes[j]])}
                  rivals == {k \in st.unmatchedElements \ {j} :
                                IdOf(dom[toChildNodes[k]]) = IdOf(dom[toChildNodes[j]])}
              IN (IdOf(dom[toChildNodes[j]]) # "" /\ Cardinality(sameId) = 1 /\ rivals = {})
                    => stack'[1].matches[j] \in sameId
    ]_vars

\* the ID index of a morph call on the pair (f, t): #mapIdSets on both roots
IndexOfBoth(d, f, t) == MapIdSets(d, MapIdSets(d, [n \in DOMAIN d |-> {}], f), t)

\* C23: the step in which morphInner matches the children of its two roots
\* makes the pairs the matcher makes with the ID index built for both roots,
\* which is the index morph(from, to) matches the same children with.
C23_InnerMorphUsesIdIndex ==
    [][(IsMatchStep /\ Top.inner) =>
        stack'[1].matches =
            MatchChildren(dom, IndexOfBoth(dom, Top.from, Top.to), dom[Top.from].kids, dom[Top.to].kids).matches
    ]_vars

\* the reference of a morph call is one node, and it is a text or a comment
ToIsCharacterData == entry = "morph" /\ ~IsNodeList(dom0, to) /\ ~IsParentNode(dom0[to])

\* C24: a morph call whose reference is a single text or comment node morphs
\* the pair (from, to): when no hook refuses, `from` ends with the text of
\* the reference if it is a node of the same kind, and the reference stands
\* in its place if it is not.
C24_SingleNodeIsPairMorphed ==
    (Done /\ ToIsCharacterData /\ NoVeto) =>
        IF dom0[from].nodeType = dom0[to].nodeType
        THEN dom[from].text = dom0[to].text
        ELSE dom[Container].kids = <<to>>

\* a named input or textarea whose live state differs from its defaults
IsDirtyFormState(d, n) ==
    /\ IsElement(d[n])
    /\ d[n].lname \in {"input", "textarea"}
    /\ HasAttr(d[n], "name")
    /\ GetAttr(d[n], "name") # ""
    /\ \/ LiveValue(d, n) # DefaultValue(d, n)
       \/ LiveChecked(d, n) # DefaultChecked(d, n)

\* the first step of a morph or morphInner call that goes on to morph
IsEntryStep == pc = "init" /\ entry \in {"morph", "morphInner"} /\ pc' = "run"

\* C25: the first step of a morph or morphInner call, whatever
\* preserveChanges, puts morphlex-dirty on exactly the named form-state
\* elements of the current tree, `from` included, whose live value or
\* checked state differs from its default.
C25_DirtyFlagsAtStart ==
    [][IsEntryStep =>
        \A n \in SubtreeOf(dom, from) :
            ~HasAttr(dom[n], "morphlex-dirty") =>
                (HasAttr(dom'[n], "morphlex-dirty") <=> IsDirtyFormState(dom, n))
    ]_vars

\* the step that computes the longest increasing subsequence of a parent's matches
IsLisStep == AtChildren("remove") /\ Top.removals = <<>> /\ stack' # <<>> /\ stack'[1].phase = "walk"

\* positions of sequence, in increasing order, whose entries are present and strictly increasing
IsIncreasingAt(sequence, positions) ==
    /\ \A i \in 1..Len(positions) : positions[i] \in 1..Len(sequence) /\ sequence[positions[i]] # 0
    /\ \A i, j \in 1..Len(positions) :
          i < j => (positions[i] < positions[j] /\ sequence[positions[i]] < sequence[positions[j]])

\* the sets of positions of sequence whose present entries increase with the position
IncreasingSets(sequence) ==
    {S \in SUBSET {i \in 1..Len(sequence) : sequence[i] # 0} :
        \A i, j \in S : i < j => sequence[i] < sequence[j]}

\* C26: the positions the LIS routine returns for a parent's matches are in
\* increasing order, their entries are present and strictly increasing, no
\* increasing choice of present entries is longer, and the result is empty
\* when no entry is present.
C26_LisIsLongestIncreasing ==
    [][IsLisStep =>
        LET lis == LongestIncreasingSubsequence(Top.matches)
        IN /\ IsIncreasingAt(Top.matches, lis)
           /\ \A S \in IncreasingSets(Top.matches) : Cardinality(S) <= Len(lis)
           /\ (\A i \in 1..Len(Top.matches) : Top.matches[i] = 0) => lis = <<>>
           /\ stack'[1].shouldNotMove = {Top.matches[lis[i]] : i \in 1..Len(lis)}
    ]_vars

\* C26 witness: a sequence with an absent entry between present ones that
\* are out of order has had its subsequence computed: two entries stay in place
C26_Witness ==
    /\ AtChildren("walk")
    /\ Len(Top.matches) = MaxLis
    /\ \E i, j, k \in 1..MaxLis : i < j /\ j < k /\ Top.matches[j] = 0
                                   /\ Top.matches[i] > Top.matches[k] /\ Top.matches[k] > 0
    /\ Cardinality(Top.shouldNotMove) = 2

RECURSIVE PassesBefore(_, _, _, _, _)
\* the index sets when loop k starts
PassesBefore(k, d, idm, fromChildNodes, toChildNodes) ==
    IF k = 1 THEN Classify(d, fromChildNodes, toChildNodes)
    ELSE RunPass(k - 1, 1, d, idm, fromChildNodes, toChildNodes,
                 PassesBefore(k - 1, d, idm, fromChildNodes, toChildNodes))

\* the index sets when loop k has treated the first m reference children
MatchingAt(k, m, d, idm, fromChildNodes, toChildNodes) ==
    RunPass(k, 1, d, idm, fromChildNodes, SubSeq(toChildNodes, 1, m),
            PassesBefore(k, d, idm, fromChildNodes, toChildNodes))

\* the candidate indices still held for removal
RemovalSet(st) == st.candidateNodes \cup st.whitespaceNodes \cup st.candidateElements

\* a matching that is one to one, pairs like with like, and splits the current children
IsSoundMatching(d, fromChildNodes, toChildNodes, st) ==
    LET matched == {j \in 1..Len(toChildNodes) : st.matches[j] # 0}
    IN /\ \A j \in matched : st.matches[j] \in 1..Len(fromChildNodes)
       /\ \A j1, j2 \in matched : st.matches[j1] = st.matches[j2] => j1 = j2
       /\ \A j \in matched :
             LET c == d[fromChildNodes[st.matches[j]]]
                 r == d[toChildNodes[j]]
             IN /\ IsElement(c) <=> IsElement(r)
                /\ ~IsElement(r) => c.nodeType = r.nodeType
       /\ \A c \in 1..Len(fromChildNodes) :
             (c \in {st.matches[j] : j \in matched}) <=> (c \notin RemovalSet(st))

\* C27: at every step of the matching loops the matching is one to one,
\* an element is paired with an element and any other node with a node of
\* its kind, and every current child is either matched or held for removal,
\* never both; the matches and removals the walk starts from are those of
\* the last step.
C27_MatchingIsSound ==
    [][IsMatchStep =>
        LET fromChildNodes == dom[Top.from].kids
            toChildNodes == dom[Top.to].kids
            last == MatchingAt(6, Len(toChildNodes), dom, idMap, fromChildNodes, toChildNodes)
        IN /\ \A k \in 1..6 : \A m \in 0..Len(toChildNodes) :
                 IsSoundMatching(dom, fromChildNodes, toChildNodes,
                                 MatchingAt(k, m, dom, idMap, fromChildNodes, toChildNodes))
           /\ stack'[1].matches = last.matches
           /\ Range(stack'[1].removals) = {fromChildNodes[c] : c \in RemovalSet(last)}
    ]_vars

\* C27 witness: a parent one of whose children was matched with a reference
\* node of its kind, a comment or a text, while another is held for removal
C27_Witness ==
    /\ AtChildren("remove")
    /\ Top.removals # <<>>
    /\ \E j \in 1..Len(Top.matches) :
          /\ Top.matches[j] # 0
          /\ ~IsElement(dom[Top.toChildNodes[j]])
          /\ ~IsEqualNode(dom, Top.fromChildNodes[Top.matches[j]], Top.toChildNodes[j])

AfterHooks == {"afterNodeAdded", "afterNodeRemoved", "afterAttributeUpdated"}

\* the before-hook that gates an after-hook
BeforeHookOf(ev) ==
    CASE ev = "afterNodeAdded" -> "beforeNodeAdded"
      [] ev = "afterNodeRemoved" -> "beforeNodeRemoved"
      [] ev = "afterAttributeUpdated" -> "beforeAttributeUpdated"

\* the mutations an after-hook reports
MutationsOf(ev) ==
    CASE ev = "afterNodeAdded" -> {"insert"}
      [] ev = "afterNodeRemoved" -> {"remove"}
      [] ev = "afterAttributeUpdated" -> {"setAttribute", "removeAttribute"}

\* event e of the trace is a mutation applied to node n
IsMutationOf(e, n) ==
    /\ e.node = n
    /\ e.ev \in {"insert", "remove", "move", "setData", "setAttribute", "removeAttribute", "flagDirty"}

\* the trace holds, from position i on, an approved replacement
IsReplacementAt(i) ==
    /\ i < Len(log)
    /\ log[i].ev = "beforeNodeRemoved"
    /\ log[i].ok
    /\ log[i + 1].ev = "beforeNodeAdded"
    /\ log[i + 1].ok

\* C28: in the trace every after-hook comes directly after the mutation it
\* reports, which comes after the approving before-hook for the same node
\* (and attribute) with no other mutation of that node in between, so the
\* after-hooks follow the order of the commits; an approved replacement is
\* beforeNodeRemoved(old), beforeNodeAdded(new), insert, afterNodeAdded(new),
\* remove, afterNodeRemoved(old).
C28_HookOrder ==
    /\ \A i \in 1..Len(log) :
          log[i].ev \in AfterHooks =>
            /\ i > 2
            /\ log[i - 1].ev \in MutationsOf(log[i].ev)
            /\ log[i - 1].node = log[i].node
            /\ log[i - 1].name = log[i].name
            /\ \E b \in 1..(i - 2) :
                  /\ log[b] = Ev(BeforeHookOf(log[i].ev), log[i].node, log[i].name, TRUE)
                  /\ \A x \in (b + 1)..(i - 2) : ~IsMutationOf(log[x], log[i].node)
    /\ \A i \in 1..Len(log) :
          IsReplacementAt(i) =>
            /\ i + 5 <= Len(log)
            /\ SubSeq(log, i + 2, i + 5) =
                  <<Ev("insert", log[i + 1].node, "", TRUE), Ev("afterNodeAdded", log[i + 1].node, "", TRUE),
                    Ev("remove", log[i].node, "", TRUE), Ev("afterNodeRemoved", log[i].node, "", TRUE)>>

\* C28 witness: a call has ended whose trace holds an approved replacement
\* and, outside it, an attribute update with its after-hook
C28_Witness ==
    /\ Done
    /\ \E i \in 1..Len(log) : IsReplacementAt(i)
    /\ \E k \in 1..Len(log) : log[k].ev = "afterAttributeUpdated"

\* the current nodes that were matched with a reference child
MatchedNodes == {p.cur : p \in paired}

\* n is a current child that no reference child was matched with
IsUnmatchedChild(n) == n # from /\ n \in DOMAIN dom0 /\ n \notin MatchedNodes

\* the events of the reorder walk of parent p that the trace holds: the
\* subsequence, a move, an insertion, the morph of a matched child
WalkEventsOf(p) ==
    {x \in 1..Len(log) :
        \/ log[x].ev = "lis" /\ log[x].node = p
        \/ /\ log[x].ev \in {"move", "insert", "beforeNodeAdded", "afterNodeAdded", "beforeNodeVisited"}
           /\ ParentOf(dom, log[x].node) = p}

\* every refusal of the call is the refusal to remove an unmatched child,
\* and every matched child is morphed in place, none is replaced
OnlyRemovalsRefused ==
    /\ \A x \in 1..Len(log) :
          ~log[x].ok => (log[x].ev = "beforeNodeRemoved" /\ IsUnmatchedChild(log[x].node))
    /\ \A n \in MatchedNodes : ~HasEv("remove", n)

\* the children of p without those whose removal was refused
KeptChildren(p) == SelectSeq(dom[p].kids, LAMBDA n : ~Refused("beforeNodeRemoved", n))

\* the children of p, without those whose removal was refused, follow the
\* reference children of r: each is the match of the reference child at its
\* place, or that reference child
InReferenceOrder(p, r) ==
    /\ Len(KeptChildren(p)) = Len(dom0[r].kids)
    /\ \A j \in 1..Len(dom0[r].kids) :
          \/ KeptChildren(p)[j] = dom0[r].kids[j]
          \/ \E m \in paired : m.parent = p /\ m.at = j /\ m.cur = KeptChildren(p)[j]

\* C29: for each parent every attempt to remove an unmatched child comes
\* before the subsequence is computed and before the first move, insertion
\* or child morph of that parent's walk; and when the only refusals are
\* refusals to remove unmatched children and the matched children are
\* morphed in place, the children of every parent whose walk has ended,
\* those refused ones left out, are in the order of the reference children:
\* the order they have when nothing is refused.
C29_RemovalsBeforeWalk ==
    /\ [][\A x \in (Len(log) + 1)..Len(log') :
            (log'[x].ev = "beforeNodeRemoved" /\ IsUnmatchedChild(log'[x].node)) =>
                WalkEventsOf(ParentOf(dom, log'[x].node)) = {}
         ]_vars
    /\ [](OnlyRemovalsRefused =>
            \A pr \in descended : HasEv("afterChildrenVisited", pr[1]) => InReferenceOrder(pr[1], pr[2]))

\* C29 witness: a call has ended in which the removal of the first child
\* was refused, a matched child was moved and a new child was inserted
C29_Witness ==
    /\ Done
    /\ OnlyRemovalsRefused
    /\ dom0[from].kids # <<>>
    /\ Refused("beforeNodeRemoved", dom0[from].kids[1])
    /\ \E x, y \in 1..Len(log) :
          /\ log[x].ev = "move"
          /\ log[y].ev = "insert"
          /\ ParentOf(dom, log[x].node) = from
          /\ ParentOf(dom, log[y].node) = from

\* the step that runs the attribute morpher on a pair of inputs
IsInputAttributeStep ==
    /\ AtPair("start")
    /\ stack' # <<>>
    /\ stack'[1].phase = "children"
    /\ dom[Top.from].lname = "input"
    /\ dom[Top.to].lname = "input"

\* the events this step adds to the trace
NewEvents == {log'[x] : x \in (Len(log) + 1)..Len(log')}

\* this step's beforeAttributeUpdated for attribute name of the current input returned false
RefusedNow(name) == Ev("beforeAttributeUpdated", Top.from, name, FALSE) \in NewEvents

\* a refused update leaves the attribute as it was and reports nothing
AttributeKept(name) ==
    /\ HasAttr(dom'[Top.from], name) = HasAttr(dom[Top.from], name)
    /\ GetAttr(dom'[Top.from], name) = GetAttr(dom[Top.from], name)
    /\ Ev("afterAttributeUpdated", Top.from, name, TRUE) \notin NewEvents

====
